---- MODULE Spec2Model ----
(***************************************************************************)
(* Webpage Archiver: the capture orchestrator (service-worker.js), the     *)
(* incremental compositor and document renderer (offscreen.js) and the     *)
(* Tile Source (content-script.js).                                        *)
(*                                                                         *)
(* One archive request is a sequential process; every await of            *)
(* archivePage / captureFullPageScreenshot is one action, and the outcome  *)
(* of the awaited external call (resolve / reject) is chosen there.  The   *)
(* rendering context answers each port request before the orchestrator     *)
(* continues, so a request and its handler are one step.                   *)
(*                                                                         *)
(* Environment assumptions: chrome.storage.sync.get resolves, and          *)
(* reportProgress never throws (it catches).                               *)
(*                                                                         *)
(* Nine specifications share the variables:                                *)
(*   Spec          one archive request after another, call by call;        *)
(*   OffscreenSpec the offscreen document alone, with pixel sizes, pixel   *)
(*                 ratios and page counts, for messages in any order;      *)
(*   ConcSpec      two archive triggers whose executions interleave at     *)
(*                 every await of ensureOffscreenDocument and of the       *)
(*                 multi-tile capture;                                     *)
(*   NameSpec      buildFilename and sanitizeFilename applied to titles,   *)
(*                 URLs and patterns drawn from bounded sets;              *)
(*   PrefsSpec     an archive request during which the options page may    *)
(*                 save new preferences;                                   *)
(*   ShortcutSpec  the popup, the options page and the keyboard shortcut   *)
(*                 reading and writing the saved formats;                  *)
(*   PortSpec      sendOffscreenMessage calls in flight on the port and    *)
(*                 the answers of the offscreen document;                  *)
(*   TermSpec      one raster-image request under weak fairness, for       *)
(*                 every page geometry, zero heights included;             *)
(*   InjectSpec    repeated injections of content-script.js into one       *)
(*                 document and the messages it answers.                   *)
(* Each specification leaves the variables of the others unchanged.        *)
(***************************************************************************)
EXTENDS Naturals, Integers, Sequences, FiniteSets, TLC

\* ---------------------------------------------------------------- bounds
MaxScrollHeight == 5
MaxMsgs == 3
MaxCycles == 4
MaxInjections == 4

\* ------------------------------------------------------ program constants
MaxAttempts == 3
MaxCanvasHeight == 32000
MaxNameLength == 120

\* ------------------------------------------------------------- text data
ChromeScheme == <<"c","h","r","o","m","e",":","/","/">>
ExtensionScheme ==
  <<"c","h","r","o","m","e","-","e","x","t","e","n","s","i","o","n",":","/","/">>
AboutScheme == <<"a","b","o","u","t",":">>
HttpsScheme == <<"h","t","t","p","s",":","/","/">>

\* URLs the active tab may have; the empty sequence is a tab without url.
Urls ==
  { ChromeScheme \o <<"s">>,
    ExtensionScheme \o <<"i","d">>,
    AboutScheme \o <<"b","l","a","n","k">>,
    HttpsScheme \o <<"a",".","c","o","m">>,
    <<>> }

NoTab == [present |-> FALSE, url |-> <<>>]
Tabs == {NoTab} \cup [present : {TRUE}, url : Urls]

StartsWith(s, p) ==
  /\ Len(s) >= Len(p)
  /\ SubSeq(s, 1, Len(p)) = p

IsInternalUrl_noAbout(url) ==
  \/ StartsWith(url, ChromeScheme)
  \/ StartsWith(url, ExtensionScheme)

IsInternalUrl(url) ==
  \/ StartsWith(url, ChromeScheme)
  \/ StartsWith(url, ExtensionScheme)
  \/ StartsWith(url, AboutScheme)

ErrNoTab == "No active tab found."
ErrInternal == "Cannot archive browser internal pages."
ErrInject == "injection rejected"
ErrCapture == "capture error"
NoError == ""

\* ---------------------------------------------------------------- formats
FORMAT_IDS == {"html", "markdown", "png", "pdf", "printpdf"}
FormatSets == (SUBSET FORMAT_IDS) \ {{}}

\* ------------------------------------------------------------- file names
\* a file name is its subfolder prefix, its resolved name and its extension
NoFile == [subfolder |-> "", stem |-> <<>>, ext |-> ""]
Subfolders == {"", "archive"}

\* file.filename.includes('/') ? file.filename.split('/').pop() : file.filename
Basename(f) == [subfolder |-> "", stem |-> f.stem, ext |-> f.ext]

\* --------------------------------------------------------- result entries
\* label = prefix + " — " + (filename | reason) [+ " (download failed: ...)"]
Entry(prefix, ok, file, reason) ==
  [success |-> ok,
   label |-> [prefix |-> prefix, file |-> file, reason |-> reason, suffix |-> ""]]

LabelOf ==
  [f \in FORMAT_IDS |->
     CASE f = "html" -> "HTML"
       [] f = "markdown" -> "Markdown"
       [] f = "png" -> "PNG"
       [] f = "pdf" -> "Screenshot PDF"
       [] f = "printpdf" -> "Print PDF"]

\* r.label.includes(basename)
LabelIncludes(label, base) ==
  /\ label.file # NoFile
  /\ Basename(label.file) = base

\* pixel ratios are counted in quarters: DprScale stands for 1.0
DprScale == 4

\* Math.round of the non-negative rational n / d
Round(n, d) == (2 * n + d) \div (2 * d)

\* Math.ceil of the non-negative rational a / b
CeilDiv(a, b) == (a + b - 1) \div b

Min(a, b) == IF a < b THEN a ELSE b
Max(a, b) == IF a > b THEN a ELSE b


\* ------------------------------------------------------------------ text
\* A string is the sequence of its UTF-16 code units; a code unit is written
\* as itself, or by name: NUL, TAB, LF and US are U+0000, U+0009, U+000A and
\* U+001F, APOS is U+0027, GRAVE is U+0060, DEL is U+007F, NBSP is U+00A0.
ControlChars == {"NUL", "TAB", "LF", "US"}
ReservedChars == {"<", ">", ":", "\"", "/", "\\", "|", "?", "*"}

\* the class [<>:"/\\|?*\x00-\x1f]
StrippedChars_withBang == ReservedChars \cup ControlChars \cup {"!"}

StrippedChars == ReservedChars \cup ControlChars

\* the class \s
IsSpace(c) == c \in {" ", "NBSP", "TAB", "LF"}

\* .replace(/[<>:"/\\|?*\x00-\x1f]/g, '')
Strip_first(str) ==
  IF \A i \in DOMAIN str : str[i] \notin StrippedChars THEN str
  ELSE LET i == CHOOSE k \in DOMAIN str :
                  /\ str[k] \in StrippedChars
                  /\ \A j \in 1..(k - 1) : str[j] \notin StrippedChars
       IN SubSeq(str, 1, i - 1) \o SubSeq(str, i + 1, Len(str))

Strip(str) == SelectSeq(str, LAMBDA c : c \notin StrippedChars)

\* .replace(/\s+/g, '-'): every maximal run of white space becomes one '-'
CollapseSpaces(str) ==
  SelectSeq([i \in DOMAIN str |->
               IF ~IsSpace(str[i]) THEN str[i]
               ELSE IF i > 1 /\ IsSpace(str[i - 1]) THEN "" ELSE "-"],
            LAMBDA c : c # "")

\* .trim()
Trim(str) ==
  IF \A i \in DOMAIN str : IsSpace(str[i]) THEN <<>>
  ELSE SubSeq(str,
              CHOOSE a \in DOMAIN str :
                ~IsSpace(str[a]) /\ \A j \in 1..(a - 1) : IsSpace(str[j]),
              CHOOSE b \in DOMAIN str :
                ~IsSpace(str[b]) /\ \A j \in (b + 1)..Len(str) : IsSpace(str[j]))

\* .substring(0, n)
Substring(str, n) == SubSeq(str, 1, Min(Len(str), n))

sanitizeFilename(str) ==
  Substring(Trim(CollapseSpaces(Strip(str))), MaxNameLength)

\* String.prototype.replace with a string pattern: the first occurrence only
IndexOf(str, tok) ==
  IF \E i \in 1..(Len(str) - Len(tok) + 1) : SubSeq(str, i, i + Len(tok) - 1) = tok
    THEN CHOOSE i \in 1..(Len(str) - Len(tok) + 1) :
           /\ SubSeq(str, i, i + Len(tok) - 1) = tok
           /\ \A j \in 1..(i - 1) : SubSeq(str, j, j + Len(tok) - 1) # tok
    ELSE 0

\* the concatenation of the strings pieces[lo], ..., pieces[hi]
RECURSIVE Concat(_, _, _)
Concat(pieces, lo, hi) ==
  IF lo > hi THEN <<>>
  ELSE IF lo = hi THEN pieces[lo]
  ELSE Concat(pieces, lo, (lo + hi) \div 2)
         \o Concat(pieces, (lo + hi) \div 2 + 1, hi)

\* the number of consecutive dollar signs that end just before position i
DollarsBefore(rep, i) ==
  IF \A j \in 1..(i - 1) : rep[j] = "$" THEN i - 1
  ELSE i - 1 - (CHOOSE j \in 1..(i - 1) :
                  rep[j] # "$" /\ \A k \in (j + 1)..(i - 1) : rep[k] = "$")

\* position i of the replacement text starts a two-unit pattern
StartsPattern(rep, i) ==
  /\ rep[i] = "$"
  /\ i < Len(rep)
  /\ rep[i + 1] \in {"$", "&", "GRAVE", "APOS"}
  /\ DollarsBefore(rep, i) % 2 = 0

\* the replacement text, read from left to right: $$ stands for a dollar
\* sign, $& for the match, $ GRAVE for the text before the match and $ APOS
\* for the text after it (there are no capture groups); anything else is
\* literal
Substitution(rep, matched, before, after) ==
  Concat([i \in DOMAIN rep |->
            IF StartsPattern(rep, i)
              THEN CASE rep[i + 1] = "$" -> <<"$">>
                     [] rep[i + 1] = "&" -> matched
                     [] rep[i + 1] = "GRAVE" -> before
                     [] rep[i + 1] = "APOS" -> after
              ELSE IF i > 1 /\ StartsPattern(rep, i - 1) THEN <<>>
              ELSE <<rep[i]>>],
         1, Len(rep))

Replace(str, tok, rep) ==
  IF IndexOf(str, tok) = 0 THEN str
  ELSE LET i == IndexOf(str, tok)
           before == SubSeq(str, 1, i - 1)
           after == SubSeq(str, i + Len(tok), Len(str))
       IN before \o Substitution(rep, tok, before, after) \o after

TokDate == <<"{", "d", "a", "t", "e", "}">>
TokHostname == <<"{", "h", "o", "s", "t", "n", "a", "m", "e", "}">>
TokTitle == <<"{", "t", "i", "t", "l", "e", "}">>
TokTimestamp == <<"{", "t", "i", "m", "e", "s", "t", "a", "m", "p", "}">>

\* filenamePattern default of chrome.storage.sync.get
DefaultPattern ==
  <<"{", "d", "a", "t", "e", "}", "_", "{", "h", "o", "s", "t", "n", "a",
    "m", "e", "}", "_", "{", "t", "i", "t", "l", "e", "}">>

Untitled == <<"u", "n", "t", "i", "t", "l", "e", "d">>
UnknownHost == <<"u", "n", "k", "n", "o", "w", "n">>
WwwPrefix == <<"w", "w", "w", ".">>

\* new URL(pageUrl).hostname.replace(/^www\./, ''), 'unknown' when the URL
\* does not parse; a URL is given by whether it parses and by its host
NoUrl == [valid |-> FALSE, hostname |-> <<>>]

HostnameOf(url) ==
  IF ~url.valid THEN UnknownHost
  ELSE IF StartsWith(url.hostname, WwwPrefix)
    THEN SubSeq(url.hostname, Len(WwwPrefix) + 1, Len(url.hostname))
    ELSE url.hostname

\* sanitizeFilename(pageTitle || 'untitled')
TitleOf(pageTitle) == sanitizeFilename(IF pageTitle = <<>> THEN Untitled ELSE pageTitle)

\* data.filenamePattern.replace('{date}', ..).replace('{hostname}', ..)
\*   .replace('{title}', ..).replace('{timestamp}', ..);  clock holds the text
\* of the date and of Date.now() at the call
Substituted(pattern, pageTitle, pageUrl, clock) ==
  Replace(Replace(Replace(Replace(pattern, TokDate, clock.date),
                          TokHostname, HostnameOf(pageUrl)),
                  TokTitle, TitleOf(pageTitle)),
          TokTimestamp, clock.timestamp)

\* name = sanitizeFilename(name), before '.' + ext is appended
ResolveName_unsanitized(pattern, pageTitle, pageUrl, clock) ==
  Substituted(pattern, pageTitle, pageUrl, clock)

ResolveName(pattern, pageTitle, pageUrl, clock) ==
  sanitizeFilename(Substituted(pattern, pageTitle, pageUrl, clock))

\* buildFilename: data is what chrome.storage.sync.get answers at the call
buildFilenameFor(data, pageTitle, pageUrl, clock, ext) ==
  [subfolder |-> data.subfolder,
   stem |-> ResolveName(data.filenamePattern, pageTitle, pageUrl, clock),
   ext |-> ext]

\* patterns the preference record may hold while a request runs
SavedPatterns == {DefaultPattern, TokTitle \o <<"-">> \o TokDate}

\* title, URL and clock readings of the page the requests archive
PageTitle == <<"M", "y", " ", "T", "i", "t", "l", "e", "!">>
PageUrl == [valid |-> TRUE, hostname |-> <<"a", ".", "c", "o", "m">>]
PageClock == [date |-> <<"2", "0", "2", "6", "-", "0", "2", "-", "1", "7">>, timestamp |-> <<"1", "7", "7", "1", "2", "8", "6", "4", "0", "0", "0", "0", "0">>]

\* the names the page's files get for each pattern
PageStems ==
  [p \in SavedPatterns |-> ResolveName(p, PageTitle, PageUrl, PageClock)]

\* buildFilename(pageTitle, pageUrl, ext) within a request: the pattern and
\* the subfolder are the ones the preference record holds at the call
buildFilename(prefs, ext) ==
  [subfolder |-> prefs.subfolder, stem |-> PageStems[prefs.filenamePattern],
   ext |-> ext]

NoPrefs == [bundleAsZip |-> FALSE, subfolder |-> "", filenamePattern |-> <<>>]
NoClock == [date |-> <<>>, timestamp |-> <<>>]
NoResolved ==
  [pattern |-> <<>>, pageTitle |-> <<>>, pageUrl |-> NoUrl, clock |-> NoClock,
   file |-> NoFile]
NoSanitized == [input |-> <<>>, output |-> <<>>]

\* ------------------------------------------------- content-script.js model
ReadabilityOutcomes == {"undefined", "null", "nocontent", "article"}

\* extractMarkdown: "none" is null; "article" and "body" are non-empty strings
\* (frontmatter + body + '\n'); "throw" is an exception of the converter.
buildMarkdownFromBody(turndownOk) == IF turndownOk THEN "body" ELSE "throw"

extractMarkdown_noFallback(rd, turndownOk) ==
  IF rd \in {"undefined", "null", "nocontent"} THEN "none"
  ELSE IF turndownOk THEN "article" ELSE "throw"

extractMarkdown(rd, turndownOk) ==
  IF rd = "undefined" THEN "none"
  ELSE IF rd \in {"null", "nocontent"} THEN buildMarkdownFromBody(turndownOk)
  ELSE IF turndownOk THEN "article" ELSE "throw"

\* capturePage: each format in its own try/catch, a throw leaves null.
capturePage(fmts, htmlOk, rd, turndownOk) ==
  [html |-> fmts.html /\ htmlOk,
   markdown |-> IF ~fmts.markdown THEN "none"
                ELSE IF extractMarkdown(rd, turndownOk) = "throw" THEN "none"
                ELSE extractMarkdown(rd, turndownOk),
   error |-> FALSE]

NoResponse == [html |-> FALSE, markdown |-> "none", error |-> FALSE]

\* getPageDimensions
ViewportHeights == {2, 3}
PixelRatios == {2 * DprScale}
Geometries ==
  [scrollHeight : 1..MaxScrollHeight, viewportWidth : {4},
   viewportHeight : ViewportHeights, devicePixelRatio : PixelRatios]
NoDims ==
  [scrollHeight |-> 0, viewportWidth |-> 0, viewportHeight |-> 0,
   devicePixelRatio |-> 0]

\* scrollToPosition: window.scrollTo clamps the offset to the scrollable range
\* and the handler reports window.scrollY.
scrollToPosition(y, d) ==
  Min(y, Max(0, d.scrollHeight - d.viewportHeight))

\* ------------------------------------------------------ offscreen.js model
NoBlob == "none"
NoCanvas == [width |-> 0, height |-> 0, exists |-> FALSE]

\* the 'stitch-init' message of captureFullPageScreenshot
StitchInitMsg(d) ==
  [viewportWidth |-> d.viewportWidth, totalHeight |-> d.scrollHeight,
   devicePixelRatio |-> d.devicePixelRatio]

\* stitchDpr = msg.devicePixelRatio || 1
DprOf(msg) == IF msg.devicePixelRatio = 0 THEN DprScale ELSE msg.devicePixelRatio

\* stitch-init: the canvas allocated for the message
StitchCanvasFor_uncapped(msg) ==
  [width |-> Round(msg.viewportWidth * DprOf(msg), DprScale),
   height |-> Round(msg.totalHeight * DprOf(msg), DprScale),
   exists |-> TRUE]

StitchCanvasFor(msg) ==
  [width |-> Round(msg.viewportWidth * DprOf(msg), DprScale),
   height |-> Min(Round(msg.totalHeight * DprOf(msg), DprScale), MaxCanvasHeight),
   exists |-> TRUE]

\* stitch-add-capture: destY, and the rows drawn when remainingHeight > 0
DestY(y, dpr) == Round(y * dpr, DprScale)

Paints(remainingHeight) == remainingHeight > 0

DrawHeight_full(imgHeight, remainingHeight) == imgHeight

DrawHeight(imgHeight, remainingHeight) == Min(imgHeight, remainingHeight)

\* generatePdf: which document is built for the cached slot
generatePdfPath_strict(cached, imageOk) ==
  IF cached = NoBlob THEN "error"
  ELSE IF imageOk THEN "image" ELSE "error"

generatePdfPath(cached, imageOk) ==
  IF cached = NoBlob THEN "text"
  ELSE IF imageOk THEN "image" ELSE "error"

\* generatePdf on an image of w x h pixels; lengths in mm are kept exact:
\* pdfHeightMm = h / w * 210 and totalPages = Math.ceil(pdfHeightMm / 297)
TotalPages(w, h) == CeilDiv(210 * h, 297 * w)

\* Math.round(srcH) of a page's slice; pageHeightPx = 297 / 210 * w and
\* srcH = Math.min(pageHeightPx, h - page * pageHeightPx), counted in 1/70 px
SliceRows(w, h, page) == Round(Min(99 * w, 70 * h - page * 99 * w), 70)

\* the band of the source image drawn on a page, in 1/70 px:
\* srcY = page * pageHeightPx and srcH = Math.min(pageHeightPx, imgHeight - srcY)
SrcY(w, page) == page * 99 * w

SrcH_unclamped(w, h, page) == 99 * w

SrcH(w, h, page) == Min(99 * w, 70 * h - SrcY(w, page))

\* the bands of the loop, one <<srcY, srcH>> per page index
Bands(w, h) ==
  [i \in 1..TotalPages(w, h) |-> <<SrcY(w, i - 1), SrcH(w, h, i - 1)>>]

\* if (page > 0) doc.addPage()
AddsPage_always(page) == TRUE

AddsPage(page) == page > 0

\* for (let page = 0; page < totalPages; page++): the pages of the document
\* after the loop (the constructor's page and one per addPage), 0 when
\* convertToBlob rejects for a slice without rows
PagesAfterLoop(w, h) ==
  IF \E page \in 0..(TotalPages(w, h) - 1) : SliceRows(w, h, page) = 0
    THEN 0
    ELSE 1 + Cardinality({page \in 0..(TotalPages(w, h) - 1) : AddsPage(page)})

\* new jsPDF(...) starts with one page
generatePdf(w, h) ==
  IF TotalPages(w, h) = 1
    THEN [pages |-> 1, format |-> "fit", imgWidth |-> w, imgHeight |-> h,
          bands |-> <<>>]
    ELSE [pages |-> PagesAfterLoop(w, h), format |-> "a4",
          imgWidth |-> w, imgHeight |-> h, bands |-> Bands(w, h)]

\* generateTextPdf: one A4 page
generateTextPdf ==
  [pages |-> 1, format |-> "a4", imgWidth |-> 0, imgHeight |-> 0, bands |-> <<>>]

NoSize == [width |-> 0, height |-> 0]

\* the two listeners that start archivePage
Triggers == {"popup", "shortcut"}
IdleProc == [pc |-> "idle", tiles |-> 0]
NoResponseYet == [type |-> "none", kind |-> "none"]
NoDoc ==
  [pages |-> 0, format |-> "none", imgWidth |-> 0, imgHeight |-> 0, bands |-> <<>>]

\* ------------------------------------------------------------------ state
VARIABLES
  storage,               \* chrome.storage.sync preference record
  offscreenExists,       \* a rendering context exists
  offscreenCreating,     \* service-worker.js global: "null" or a "rejected" promise
  offscreenPort,         \* offscreenPort # null
  cachedScreenshotBlob,  \* offscreen.js slot: "none", "cur" (this capture), "old"
  stitchCanvas,          \* offscreen.js stitch canvas
  scrollY,               \* window.scrollY of the target
  pc,                    \* position of archivePage
  formats, tab, bundleAsZip, captureResponse,
  injected,              \* outcome of executeScript: "none","ok","rejected"
  dims, currentY, attempt, pos, screenshotData,
  results, files, completedSteps, fileIdx, pdfResponse, error,
  calls,                 \* external calls issued by this request
  offsets,               \* scrollY values handed to stitch-add-capture
  composites,            \* composites produced in this request
  pdfPath,               \* document the renderer built: "none","text","image","error"
  pdfSource,             \* slot content generate-pdf found: "n/a","none","cur","old"
  shotError,             \* why captureFullPageScreenshot threw
  dlFailed,              \* base names of files whose download (or bundle) failed
  stitchDpr,             \* offscreen.js: pixel scale of the stitch canvas
  painted,               \* drawImage calls on the stitch canvas: <<destY, drawHeight>>
  blobSize,              \* width and height of the image in cachedScreenshotBlob
  response,              \* last port.postMessage of the offscreen document
  doc,                   \* jsPDF document built by the last generate-pdf
  procs,                 \* concurrent archivePage executions, one per trigger
  inbox,                 \* completions of browser calls not yet delivered (FIFO)
  creating,              \* triggers whose createDocument is in flight in the browser
  canvasOf,              \* trigger whose stitch-init allocated the stitch canvas
  progress,              \* reportProgress calls of this request, in order
  downloads,             \* file names handed to chrome.downloads.download, in order
  prefsAtStart,          \* the preference record when archivePage read it
  resolved,              \* last buildFilename call: its arguments and its result
  sanitized,             \* last sanitizeFilename call: its argument and its result
  storedFormats,         \* the 'formats' key of chrome.storage.sync
  popupChecked,          \* popup.js: the checked format checkboxes of the popup
  shortcut,              \* last 'archive-page' command: record read, list passed
  msgIdCounter,          \* service-worker.js global: id of the last port request
  portHandlers,          \* ids whose response handler is registered on the port
  toOffscreen,           \* port requests not yet received by the offscreen document
  handling,              \* requests whose offscreen handler is running
  toWorker,              \* port responses not yet dispatched in the service worker
  posted,                \* every response the offscreen document posted, in order
  settled,               \* every settlement of a pending call: its id, the response
  revoked,               \* blob URLs this request sent a revoke-blob-url for
  webpageArchiverInjected, \* window.__webpageArchiverInjected of the document
  listeners,             \* onMessage listeners the content script registered
  injections,            \* executeScript runs in the current document
  lastMsg                \* last message to the tab: how often handled, scrolls made

persistVars ==
  <<storage, offscreenExists, offscreenCreating, offscreenPort, cachedScreenshotBlob, stitchCanvas, scrollY>>
reqVars == <<formats, tab, bundleAsZip, captureResponse, injected>>
shotVars == <<dims, currentY, attempt, pos, screenshotData>>
outVars == <<results, files, completedSteps, fileIdx, pdfResponse, error>>
histVars == <<calls, offsets, composites, pdfPath, pdfSource, shotError, dlFailed>>
\* pixel-level state of the offscreen document; the specification of the
\* requests leaves it alone and OffscreenSpec details it
offVars == <<stitchDpr, painted, blobSize, response, doc>>
\* concurrent triggers; only ConcSpec lets them run
concVars == <<procs, inbox, creating, canvasOf>>
\* file naming alone; only NameSpec exercises it
nameVars == <<resolved, sanitized>>
\* the saved default formats and the pages that read and write them
uiVars == <<storedFormats, popupChecked, shortcut>>
\* the port between the service worker and the offscreen document, message
\* by message; only PortSpec exercises it
portVars ==
  <<msgIdCounter, portHandlers, toOffscreen, handling, toWorker, posted, settled>>
\* the document of the target and the content script in it; only
\* InjectSpec exercises it
csVars == <<webpageArchiverInjected, listeners, injections, lastMsg>>
auxVars == <<offVars, concVars, nameVars, uiVars, portVars, csVars>>
\* what the request reported, downloaded and read
logVars == <<progress, downloads, prefsAtStart>>
vars ==
  <<persistVars, pc, reqVars, shotVars, outVars, histVars, logVars, revoked, auxVars>>

NoShot == "null"

NoMsg == [type |-> "none", y |-> 0, handled |-> 0, scrolls |-> 0]

\* ------------------------------------------------ the saved format record
\* popup.js: const FORMAT_IDS = ['html', 'markdown', 'png', 'pdf']
PopupFormatIds == {"html", "markdown", "png", "pdf"}

\* the 'formats' key was never written
NotStored == [saved |-> FALSE, keys |-> {}, on |-> {}]

\* a stored object with the given keys, those of `on` being true
StoredFormats(keys, on) == [saved |-> TRUE, keys |-> keys, on |-> on]

\* checkbox.checked = data.formats[fmt] !== false, data read with a default
\* object in which every id is true
Checked(stored, ids) ==
  {f \in ids : ~stored.saved \/ f \notin stored.keys \/ f \in stored.on}

\* options.js loadOptions: the format checkboxes of the options page
loadOptions(stored) == Checked(stored, FORMAT_IDS)

\* onCommand: Object.entries(data.formats).filter(([, enabled]) => enabled)
ShortcutFormats(stored) == IF stored.saved THEN stored.on ELSE FORMAT_IDS

NoShortcut == [fired |-> FALSE, record |-> NotStored, formats |-> {}, started |-> FALSE]

Init ==
  /\ storage \in [bundleAsZip : BOOLEAN, subfolder : Subfolders,
                  filenamePattern : {DefaultPattern}]
  /\ offscreenExists = FALSE
  /\ offscreenCreating = "null"
  /\ offscreenPort = FALSE
  /\ cachedScreenshotBlob = NoBlob
  /\ stitchCanvas = NoCanvas
  /\ scrollY = 0
  /\ pc = "idle"
  /\ formats = {}
  /\ tab = NoTab
  /\ bundleAsZip = FALSE
  /\ captureResponse = NoResponse
  /\ injected = "none"
  /\ dims = NoDims
  /\ currentY = 0
  /\ attempt = 0
  /\ pos = 0
  /\ screenshotData = NoShot
  /\ results = <<>>
  /\ files = <<>>
  /\ completedSteps = 0
  /\ fileIdx = 0
  /\ pdfResponse = "none"
  /\ error = NoError
  /\ calls = {}
  /\ offsets = <<>>
  /\ composites = 0
  /\ pdfPath = "none"
  /\ pdfSource = "n/a"
  /\ shotError = "none"
  /\ dlFailed = {}
  /\ stitchDpr = DprScale
  /\ painted = <<>>
  /\ blobSize = NoSize
  /\ response = NoResponseYet
  /\ doc = NoDoc
  /\ procs = [t \in Triggers |-> IdleProc]
  /\ inbox = <<>>
  /\ creating = {}
  /\ canvasOf = "none"
  /\ progress = <<>>
  /\ downloads = <<>>
  /\ prefsAtStart = NoPrefs
  /\ resolved = NoResolved
  /\ sanitized = NoSanitized
  /\ storedFormats = NotStored
  /\ popupChecked = PopupFormatIds
  /\ shortcut = NoShortcut
  /\ msgIdCounter = 0
  /\ portHandlers = {}
  /\ toOffscreen = <<>>
  /\ handling = {}
  /\ toWorker = <<>>
  /\ posted = <<>>
  /\ settled = <<>>
  /\ revoked = {}
  /\ webpageArchiverInjected = FALSE
  /\ listeners = 0
  /\ injections = 0
  /\ lastMsg = NoMsg

needsHtml == "html" \in formats
needsMarkdown == "markdown" \in formats
needsPng == "png" \in formats
needsPdf == "pdf" \in formats
needsPrintPdf == "printpdf" \in formats

Call(c) == calls' = calls \cup {c}

\* const totalSteps = formats.length
totalSteps == Cardinality(formats)

\* reportProgress(percent, label); the percentage is the fraction num / den
Report(percent, label) == [num |-> percent, den |-> 1, label |-> label]

\* reportProgress(40 + stepSize * completedSteps, label), stepSize = 50 / totalSteps
StepReport_next(k, label) ==
  [num |-> 40 * totalSteps + 50 * (k + 1), den |-> totalSteps, label |-> label]

StepReport(k, label) ==
  [num |-> 40 * totalSteps + 50 * k, den |-> totalSteps, label |-> label]

ProgressLabel ==
  [f \in FORMAT_IDS |->
     CASE f = "html" -> "Saving HTML archive..."
       [] f = "markdown" -> "Saving Markdown..."
       [] f = "png" -> "Saving screenshot..."
       [] f = "pdf" -> "Generating screenshot PDF..."
       [] f = "printpdf" -> "Generating print PDF..."]

\* the report at the head of a stage, issued when the stage's branch is taken
StageReports(f, taken) ==
  IF taken THEN <<StepReport(completedSteps, ProgressLabel[f])>> ELSE <<>>

\* throw out of archivePage: the listener answers { error }
Throw(msg) ==
  /\ pc' = "error"
  /\ error' = msg

\* ------------------------------------------------- archivePage: validation
\* onMessage listener: { type: 'archive', formats } starts archivePage
Archive(fs) ==
  /\ pc = "idle"
  /\ pc' = "query"
  /\ formats' = fs
  /\ UNCHANGED <<auxVars, revoked, logVars, persistVars, tab, bundleAsZip, captureResponse, injected, shotVars,
                 outVars, histVars>>

\* chrome.tabs.query and the two validation throws
TabQuery(t) ==
  /\ pc = "query"
  /\ tab' = t
  /\ Call("tabs.query")
  /\ IF ~t.present \/ t.url = <<>>
       THEN Throw(ErrNoTab)
       ELSE IF IsInternalUrl(t.url)
         THEN Throw(ErrInternal)
         ELSE pc' = "prefs" /\ error' = error
  /\ UNCHANGED <<auxVars, revoked, logVars, persistVars, formats, bundleAsZip, captureResponse, injected, shotVars,
                 results, files, completedSteps, fileIdx, pdfResponse,
                 offsets, composites, pdfPath, pdfSource, shotError, dlFailed>>

\* const prefs = await chrome.storage.sync.get({ bundleAsZip: true })
ReadPrefs ==
  /\ pc = "prefs"
  /\ bundleAsZip' = storage.bundleAsZip
  /\ prefsAtStart' = storage
  /\ Call("storage.get")
  /\ pc' = "inject"
  /\ UNCHANGED <<auxVars, revoked, progress, downloads, persistVars, formats, tab, captureResponse, injected, shotVars, outVars,
                 offsets, composites, pdfPath, pdfSource, shotError, dlFailed>>

\* await injectContentScript(tab.id): a rejection leaves archivePage
InjectIsFatal(ok) == ~ok

\* injectContentScript: chrome.scripting.executeScript resolves or rejects
Inject(ok) ==
  /\ pc = "inject"
  /\ Call("executeScript")
  /\ progress' = Append(progress, Report(5, "Injecting content script..."))
  /\ injected' = IF ok THEN "ok" ELSE "rejected"
  /\ IF InjectIsFatal(ok) THEN Throw(ErrInject) ELSE pc' = "capture" /\ error' = error
  /\ UNCHANGED <<auxVars, revoked, downloads, prefsAtStart, persistVars, formats, tab, bundleAsZip, captureResponse, shotVars,
                 results, files, completedSteps, fileIdx, pdfResponse,
                 offsets, composites, pdfPath, pdfSource, shotError, dlFailed>>

\* if (captureResponse.error) throw
CaptureIsFatal_never(resp) == FALSE

CaptureIsFatal(resp) == resp.error

\* if (needsPng || needsPdf)
NeedsScreenshot_always(fs) == TRUE

NeedsScreenshot(fs) == "png" \in fs \/ "pdf" \in fs

\* the 'capture' message: answered by capturePage, or by { error }
Capture(answered, htmlOk, rd, turndownOk) ==
  /\ pc = "capture"
  /\ Call("capture")
  /\ progress' = Append(progress, Report(15, "Capturing page content..."))
  /\ captureResponse' =
       IF answered
         THEN capturePage([html |-> needsHtml, markdown |-> needsMarkdown],
                          htmlOk, rd, turndownOk)
         ELSE [NoResponse EXCEPT !.error = TRUE]
  /\ IF CaptureIsFatal(captureResponse')
       THEN Throw(ErrCapture)
       ELSE /\ pc' = IF NeedsScreenshot(formats) THEN "dims" ELSE "html"
            /\ error' = error
  /\ UNCHANGED <<auxVars, revoked, downloads, prefsAtStart, persistVars, formats, tab, bundleAsZip, injected, shotVars,
                 results, files, completedSteps, fileIdx, pdfResponse,
                 offsets, composites, pdfPath, pdfSource, shotError, dlFailed>>

\* ------------------------------------------------ ensureOffscreenDocument
\* getContexts, then createDocument when no context exists; a rejected
\* creation leaves offscreenCreating set to the rejected promise.
EnsureOk(createOk) ==
  \/ offscreenExists
  \/ offscreenCreating = "null" /\ createOk

EnsureEffect(createOk) ==
  /\ offscreenExists' = (offscreenExists \/ EnsureOk(createOk))
  /\ offscreenCreating' =
       IF offscreenExists \/ EnsureOk(createOk) THEN offscreenCreating ELSE "rejected"
  /\ offscreenPort' = (offscreenPort \/ EnsureOk(createOk))

\* --------------------------------------------- captureFullPageScreenshot
\* the function's locals die when it returns or throws
ShotLocalsGone ==
  /\ dims' = NoDims
  /\ currentY' = 0
  /\ attempt' = 0
  /\ pos' = 0
  /\ offsets' = <<>>

\* catch (err) at archivePage: screenshotData stays null; shotError keeps
\* whether the error thrown was the rate-limit one
ShotThrow(reason) ==
  /\ pc' = "html"
  /\ screenshotData' = NoShot
  /\ shotError' = IF reason = "rate-limit" THEN "rate-limit" ELSE "other"
  /\ ShotLocalsGone

GetDimensions(ok, g) ==
  /\ pc = "dims"
  /\ Call("get-page-dimensions")
  /\ progress' = Append(progress, Report(30, "Capturing full-page screenshot..."))
  /\ IF ok
       THEN /\ dims' = g
            /\ pc' = "ensure1"
            /\ UNCHANGED <<currentY, attempt, pos, screenshotData, offsets, shotError>>
       ELSE ShotThrow("dims")
  /\ UNCHANGED <<auxVars, revoked, downloads, prefsAtStart, persistVars, reqVars, outVars, composites, pdfPath, pdfSource, dlFailed>>

\* if (scrollHeight <= viewportHeight): the page fits in one viewport
FitsOneViewport_strict(d) == d.scrollHeight < d.viewportHeight

FitsOneViewport(d) == d.scrollHeight <= d.viewportHeight

ShotEnsure(createOk) ==
  /\ pc = "ensure1"
  /\ Call("ensureOffscreenDocument")
  /\ EnsureEffect(createOk)
  /\ IF EnsureOk(createOk)
       THEN /\ pc' = IF FitsOneViewport(dims) THEN "fastRaster" ELSE "stitchInit"
            /\ UNCHANGED <<shotVars, offsets, shotError>>
       ELSE ShotThrow("offscreen")
  /\ UNCHANGED <<auxVars, revoked, logVars, storage, cachedScreenshotBlob, stitchCanvas, scrollY,
                 reqVars, outVars, composites, pdfPath, pdfSource, dlFailed>>

\* chrome.tabs.captureVisibleTab resolves, or rejects with the
\* MAX_CAPTURE_VISIBLE_TAB_CALLS_PER_SECOND message or with another one
RasterOutcomes == {"ok", "rate-limit", "other"}

\* fast path: one captureVisibleTab, outside any try: every rejection, the
\* rate-limit one included, leaves captureFullPageScreenshot
FastRaster(outcome) ==
  /\ pc = "fastRaster"
  /\ Call("captureVisibleTab")
  /\ IF outcome = "ok"
       THEN /\ pc' = "cache"
            /\ UNCHANGED <<shotVars, offsets, shotError>>
       ELSE ShotThrow(outcome)
  /\ UNCHANGED <<auxVars, revoked, logVars, persistVars, reqVars, outVars, composites, pdfPath, pdfSource, dlFailed>>

\* the fast path returns from captureFullPageScreenshot
FastPathReturn_fallThrough == "stitchInit"

FastPathReturn == "html"

\* 'cache-screenshot' request and its handler (dataUrlToBlob may reject)
CacheScreenshot(ok) ==
  /\ pc = "cache"
  /\ Call("cache-screenshot")
  /\ IF ok
       THEN /\ cachedScreenshotBlob' = "cur"
            /\ composites' = composites + 1
            /\ screenshotData' = "dataUrl"
            /\ pc' = FastPathReturn
            /\ ShotLocalsGone
            /\ UNCHANGED shotError
       ELSE /\ cachedScreenshotBlob' = NoBlob
            /\ composites' = composites
            /\ ShotThrow("cache")
  /\ UNCHANGED <<auxVars, revoked, logVars, storage, offscreenExists, offscreenCreating, offscreenPort,
                 stitchCanvas, scrollY, reqVars, outVars, pdfPath, pdfSource, dlFailed>>

\* currentY += viewportHeight
NextY_double(y, d) == y + 2 * d.viewportHeight

NextY(y, d) == y + d.viewportHeight

\* while (currentY < scrollHeight)
LoopPc_noScroll(y) == IF y < dims.scrollHeight THEN "raster" ELSE "scrollTop"

LoopPc(y) == IF y < dims.scrollHeight THEN "scroll" ELSE "scrollTop"

\* 'stitch-init' request and its handler
StitchInit ==
  /\ pc = "stitchInit"
  /\ Call("stitch-init")
  /\ stitchCanvas' = StitchCanvasFor(StitchInitMsg(dims))
  /\ currentY' = 0
  /\ pc' = LoopPc(0)
  /\ UNCHANGED <<auxVars, revoked, logVars, storage, offscreenExists, offscreenCreating, offscreenPort,
                 cachedScreenshotBlob, scrollY, reqVars,
                 dims, attempt, pos, screenshotData, outVars,
                 offsets, composites, pdfPath, pdfSource, shotError, dlFailed>>

\* 'scroll-to' with y = currentY, answered by scrollToPosition
ScrollTo(ok) ==
  /\ pc = "scroll"
  /\ Call("scroll-to")
  /\ IF ok
       THEN /\ scrollY' = scrollToPosition(currentY, dims)
            /\ pos' = scrollToPosition(currentY, dims)
            /\ pc' = "settle"
            /\ UNCHANGED <<dims, currentY, attempt, screenshotData, offsets, shotError>>
       ELSE /\ scrollY' = scrollY
            /\ ShotThrow("scroll")
  /\ UNCHANGED <<auxVars, revoked, logVars, storage, offscreenExists, offscreenCreating, offscreenPort,
                 cachedScreenshotBlob, stitchCanvas, reqVars, outVars,
                 composites, pdfPath, pdfSource, dlFailed>>

\* await new Promise((r) => setTimeout(r, 350)); then attempt = 0
Settle ==
  /\ pc = "settle"
  /\ pc' = "raster"
  /\ attempt' = 0
  /\ UNCHANGED <<auxVars, revoked, logVars, persistVars, reqVars, dims, currentY, pos, screenshotData,
                 outVars, histVars>>

\* attempt < 2 && err.message includes MAX_CAPTURE_VISIBLE_TAB_CALLS_PER_SECOND
RetryAllowed_four(a, outcome) == a < MaxAttempts /\ outcome = "rate-limit"

RetryAllowed(a, outcome) == a < MaxAttempts - 1 /\ outcome = "rate-limit"

\* one captureVisibleTab attempt of the retry loop
Raster(outcome) ==
  /\ pc = "raster"
  /\ Call("captureVisibleTab")
  /\ IF outcome = "ok"
       THEN /\ pc' = "add"
            /\ UNCHANGED <<shotVars, offsets, shotError>>
       ELSE IF RetryAllowed(attempt, outcome)
         THEN /\ attempt' = attempt + 1
              /\ pc' = "raster"
              /\ UNCHANGED <<dims, currentY, pos, screenshotData, offsets, shotError>>
         ELSE ShotThrow(outcome)
  /\ UNCHANGED <<auxVars, revoked, logVars, persistVars, reqVars, outVars, composites, pdfPath, pdfSource, dlFailed>>

\* 'stitch-add-capture' with scrollY = pos.scrollY (loadImage may reject)
StitchAdd(ok) ==
  /\ pc = "add"
  /\ Call("stitch-add-capture")
  /\ IF ok
       THEN /\ offsets' = Append(offsets, pos)
            /\ currentY' = NextY(currentY, dims)
            /\ pc' = LoopPc(NextY(currentY, dims))
            /\ UNCHANGED <<cachedScreenshotBlob, dims, attempt, pos, screenshotData, shotError>>
       ELSE /\ cachedScreenshotBlob' = NoBlob
            /\ ShotThrow("add")
  /\ UNCHANGED <<auxVars, revoked, logVars, storage, offscreenExists, offscreenCreating, offscreenPort,
                 stitchCanvas, scrollY, reqVars, outVars,
                 composites, pdfPath, pdfSource, dlFailed>>

\* await chrome.tabs.sendMessage(tabId, { type: 'scroll-to', y: 0 })
ScrollTop(ok) ==
  /\ pc = "scrollTop"
  /\ Call("scroll-to")
  /\ IF ok
       THEN /\ scrollY' = scrollToPosition(0, dims)
            /\ pc' = "finalize"
            /\ UNCHANGED <<shotVars, offsets, shotError>>
       ELSE /\ scrollY' = scrollY
            /\ ShotThrow("scroll")
  /\ UNCHANGED <<auxVars, revoked, logVars, storage, offscreenExists, offscreenCreating, offscreenPort,
                 cachedScreenshotBlob, stitchCanvas, reqVars, outVars,
                 composites, pdfPath, pdfSource, dlFailed>>

\* 'stitch-finalize' request and its handler (convertToBlob may reject)
StitchFinalize(ok) ==
  /\ pc = "finalize"
  /\ Call("stitch-finalize")
  /\ IF ok
       THEN /\ cachedScreenshotBlob' = "cur"
            /\ stitchCanvas' = NoCanvas
            /\ composites' = composites + 1
            /\ screenshotData' = "blob"
            /\ pc' = "html"
            /\ ShotLocalsGone
            /\ UNCHANGED shotError
       ELSE /\ cachedScreenshotBlob' = NoBlob
            /\ stitchCanvas' = stitchCanvas
            /\ composites' = composites
            /\ ShotThrow("finalize")
  /\ UNCHANGED <<auxVars, revoked, logVars, storage, offscreenExists, offscreenCreating, offscreenPort,
                 scrollY, reqVars, outVars, pdfPath, pdfSource, dlFailed>>

\* ------------------------------------------------- archivePage: the stages
File(name, data, type) == [filename |-> name, data |-> data, type |-> type]

\* HTML and Markdown stages: if (needs && content) {...} else if (needs) {...}
TextEntries_dropFailure(fmt, needs, content, name, reason) ==
  IF needs /\ content
    THEN <<Entry(LabelOf[fmt], TRUE, name, "")>>
    ELSE <<>>

TextEntries(fmt, needs, content, name, reason) ==
  IF needs /\ content
    THEN <<Entry(LabelOf[fmt], TRUE, name, "")>>
    ELSE IF needs
      THEN <<Entry(LabelOf[fmt], FALSE, NoFile, reason)>>
      ELSE <<>>

TextFiles(needs, content, name, data) ==
  IF needs /\ content THEN <<File(name, data, "text")>> ELSE <<>>

Step(needs) == IF needs THEN 1 ELSE 0

StageHtml ==
  /\ pc = "html"
  /\ progress' = progress \o StageReports("html", needsHtml /\ captureResponse.html)
  /\ results' = results \o
       TextEntries("html", needsHtml, captureResponse.html,
                   buildFilename(storage, "html"), "capture failed")
  /\ files' = files \o
       TextFiles(needsHtml, captureResponse.html, buildFilename(storage, "html"), "html")
  /\ completedSteps' = completedSteps + Step(needsHtml)
  /\ pc' = "markdown"
  /\ UNCHANGED <<auxVars, revoked, downloads, prefsAtStart, persistVars, reqVars, shotVars, fileIdx, pdfResponse, error, histVars>>

StageMarkdown ==
  /\ pc = "markdown"
  /\ progress' = progress \o
       StageReports("markdown", needsMarkdown /\ captureResponse.markdown # "none")
  /\ results' = results \o
       TextEntries("markdown", needsMarkdown, captureResponse.markdown # "none",
                   buildFilename(storage, "md"), "capture failed (page may not have article content)")
  /\ files' = files \o
       TextFiles(needsMarkdown, captureResponse.markdown # "none",
                 buildFilename(storage, "md"), "markdown")
  /\ completedSteps' = completedSteps + Step(needsMarkdown)
  /\ pc' = "png"
  /\ UNCHANGED <<auxVars, revoked, downloads, prefsAtStart, persistVars, reqVars, shotVars, fileIdx, pdfResponse, error, histVars>>

\* if (needsPng && screenshotData?.png)
PngAvailable_always(shot) == TRUE

PngAvailable(shot) == shot # NoShot

\* blob: URL of the stitched image, or the base64 part of the data URL
PngFile(shot, name) ==
  IF shot = "blob" THEN File(name, "blob:png", "blob-url")
  ELSE File(name, "png-base64", "base64")

StagePng ==
  /\ pc = "png"
  /\ progress' = progress \o
       StageReports("png", needsPng /\ PngAvailable(screenshotData))
  /\ results' = results \o
       TextEntries("png", needsPng, PngAvailable(screenshotData),
                   buildFilename(storage, "png"), "capture failed")
  /\ files' = files \o
       (IF needsPng /\ PngAvailable(screenshotData)
          THEN <<PngFile(screenshotData, buildFilename(storage, "png"))>> ELSE <<>>)
  /\ completedSteps' = completedSteps + Step(needsPng)
  /\ pc' = "pdf"
  /\ UNCHANGED <<auxVars, revoked, downloads, prefsAtStart, persistVars, reqVars, shotVars, fileIdx, pdfResponse, error, histVars>>

\* if (needsPdf) { reportProgress; try { await ensureOffscreenDocument(); ...
PdfStagePc_skip(np) == "deliver"

PdfStagePc(np) == IF np THEN "pdfEnsure" ELSE "printpdf"

StagePdf ==
  /\ pc = "pdf"
  /\ progress' = progress \o StageReports("pdf", needsPdf)
  /\ pc' = PdfStagePc(needsPdf)
  /\ UNCHANGED <<auxVars, revoked, downloads, prefsAtStart, persistVars, reqVars, shotVars, outVars, histVars>>

PdfEnsure(createOk) ==
  /\ pc = "pdfEnsure"
  /\ Call("ensureOffscreenDocument")
  /\ EnsureEffect(createOk)
  /\ IF EnsureOk(createOk)
       THEN /\ pc' = "pdfGen"
            /\ UNCHANGED <<results, completedSteps, pdfResponse>>
       ELSE /\ results' = Append(results, Entry(LabelOf["pdf"], FALSE, NoFile, "offscreen"))
            /\ completedSteps' = completedSteps + 1
            /\ pdfResponse' = "error"
            /\ pc' = "printpdf"
  /\ UNCHANGED <<auxVars, revoked, logVars, storage, cachedScreenshotBlob, stitchCanvas, scrollY, reqVars,
                 shotVars, files, fileIdx, error,
                 offsets, composites, pdfPath, pdfSource, shotError, dlFailed>>

\* const ext = needsPrintPdf ? 'screenshot.pdf' : 'pdf'
PdfExt == IF needsPrintPdf THEN "screenshot.pdf" ELSE "pdf"

\* 'generate-pdf' request, its handler, and the recording of the answer
GeneratePdf(imageOk) ==
  /\ pc = "pdfGen"
  /\ Call("generate-pdf")
  /\ pdfPath' = generatePdfPath(cachedScreenshotBlob, imageOk)
  /\ pdfSource' = cachedScreenshotBlob
  /\ cachedScreenshotBlob' = NoBlob
  /\ IF pdfPath' # "error"
       THEN /\ pdfResponse' = "blobUrl"
            /\ files' = Append(files, File(buildFilename(storage, PdfExt), "blob:pdf", "blob-url"))
            /\ results' = Append(results,
                 Entry(LabelOf["pdf"], TRUE, buildFilename(storage, PdfExt), ""))
       ELSE /\ pdfResponse' = "error"
            /\ files' = files
            /\ results' = Append(results, Entry(LabelOf["pdf"], FALSE, NoFile, "renderer"))
  /\ completedSteps' = completedSteps + 1
  /\ pc' = "printpdf"
  /\ UNCHANGED <<auxVars, revoked, logVars, storage, offscreenExists, offscreenCreating, offscreenPort,
                 stitchCanvas, scrollY, reqVars, shotVars, fileIdx, error,
                 offsets, composites, shotError, dlFailed>>

StagePrintPdf ==
  /\ pc = "printpdf"
  /\ progress' = progress \o StageReports("printpdf", needsPrintPdf)
  /\ pc' = IF needsPrintPdf THEN "attach" ELSE "deliver"
  /\ UNCHANGED <<auxVars, revoked, downloads, prefsAtStart, persistVars, reqVars, shotVars, outVars, histVars>>

PrintFailed(reason) ==
  /\ results' = Append(results, Entry(LabelOf["printpdf"], FALSE, NoFile, reason))
  /\ files' = files
  /\ completedSteps' = completedSteps + 1
  /\ pc' = "deliver"

\* generatePrintPdf: await chrome.debugger.attach
PrintAttach(ok) ==
  /\ pc = "attach"
  /\ Call("debugger.attach")
  /\ IF ok
       THEN pc' = "print" /\ UNCHANGED <<results, files, completedSteps>>
       ELSE PrintFailed("attach")
  /\ UNCHANGED <<auxVars, revoked, logVars, persistVars, reqVars, shotVars, fileIdx, pdfResponse, error,
                 offsets, composites, pdfPath, pdfSource, shotError, dlFailed>>

\* try { ... } finally { detach }: the finally block runs after the return
\* and after the throw
AfterPrint_noFinally(ok) == IF ok THEN "detachReturn" ELSE "deliver"

AfterPrint(ok) == IF ok THEN "detachReturn" ELSE "detachThrow"

\* try { sendCommand('Page.printToPDF') }
PrintCommand(ok) ==
  /\ pc = "print"
  /\ Call("Page.printToPDF")
  /\ pc' = AfterPrint(ok)
  /\ UNCHANGED <<auxVars, revoked, logVars, persistVars, reqVars, shotVars, outVars,
                 offsets, composites, pdfPath, pdfSource, shotError, dlFailed>>

\* const ext = needsPdf ? 'print.pdf' : 'pdf'
PrintExt == IF needsPdf THEN "print.pdf" ELSE "pdf"

\* finally { await chrome.debugger.detach } and the recording of the outcome
PrintDetach(ok) ==
  /\ pc \in {"detachReturn", "detachThrow"}
  /\ Call("debugger.detach")
  /\ IF ok /\ pc = "detachReturn"
       THEN /\ files' = Append(files, File(buildFilename(storage, PrintExt), "print-base64", "base64"))
            /\ results' = Append(results,
                 Entry(LabelOf["printpdf"], TRUE, buildFilename(storage, PrintExt), ""))
            /\ completedSteps' = completedSteps + 1
            /\ pc' = "deliver"
       ELSE PrintFailed(IF pc = "detachThrow" /\ ok THEN "print" ELSE "detach")
  /\ UNCHANGED <<auxVars, revoked, logVars, persistVars, reqVars, shotVars, fileIdx, pdfResponse, error,
                 offsets, composites, pdfPath, pdfSource, shotError, dlFailed>>

\* ------------------------------------------------ archivePage: delivery
ZipEntry(reason) ==
  [success |-> FALSE,
   label |-> [prefix |-> "ZIP", file |-> NoFile, reason |-> reason, suffix |-> ""]]

MinOf(S) == CHOOSE m \in S : \A x \in S : m <= x

\* results.find((r) => r.label.includes(basename) && r.success)
Matches(rs, base) ==
  {i \in DOMAIN rs : LabelIncludes(rs[i].label, base) /\ rs[i].success}

\* match.success = false; match.label += ' (download failed: ...)'
Downgrade_remove(rs, base) ==
  IF Matches(rs, base) = {} THEN rs
  ELSE SubSeq(rs, 1, MinOf(Matches(rs, base)) - 1)
         \o SubSeq(rs, MinOf(Matches(rs, base)) + 1, Len(rs))

Downgrade(rs, base) ==
  IF Matches(rs, base) = {} THEN rs
  ELSE [rs EXCEPT ![MinOf(Matches(rs, base))] =
          [success |-> FALSE,
           label |-> [@.label EXCEPT !.suffix = "download failed"]]]

BaseNames(fs) == {Basename(fs[i].filename) : i \in DOMAIN fs}

\* if (files.length > 0) { if (bundleAsZip) {...} else {...} }
DeliveryPc_individual(fs, zip) == IF fs = <<>> THEN "finish" ELSE "download"

DeliveryPc(fs, zip) ==
  IF fs = <<>> THEN "finish"
  ELSE IF zip THEN "zipEnsure" ELSE "download"

Deliver ==
  /\ pc = "deliver"
  /\ pc' = DeliveryPc(files, bundleAsZip)
  /\ fileIdx' = 1
  /\ progress' = IF files # <<>> /\ bundleAsZip
                   THEN Append(progress, Report(90, "Creating ZIP archive..."))
                   ELSE progress
  /\ UNCHANGED <<auxVars, revoked, downloads, prefsAtStart, persistVars, reqVars, shotVars, results, files, completedSteps,
                 pdfResponse, error, histVars>>

\* catch (err) { results.push({ label: `ZIP — ${err.message}`, success: false }) }
ZipFailed(reason) ==
  /\ results' = Append(results, ZipEntry(reason))
  /\ pc' = "revoke"

ZipEnsure(createOk) ==
  /\ pc = "zipEnsure"
  /\ Call("ensureOffscreenDocument")
  /\ EnsureEffect(createOk)
  /\ IF EnsureOk(createOk)
       THEN pc' = "zipCreate" /\ results' = results
       ELSE ZipFailed("offscreen")
  /\ UNCHANGED <<auxVars, revoked, logVars, storage, cachedScreenshotBlob, stitchCanvas, scrollY, reqVars,
                 shotVars, files, completedSteps, fileIdx, pdfResponse, error,
                 offsets, composites, pdfPath, pdfSource, shotError, dlFailed>>

\* 'create-zip' request and its handler (a fetch of a blob URL may reject;
\* the handler's catch clears the cached slot)
CreateZip(ok) ==
  /\ pc = "zipCreate"
  /\ Call("create-zip")
  /\ IF ok
       THEN /\ pc' = "zipDownload"
            /\ UNCHANGED <<results, cachedScreenshotBlob>>
       ELSE /\ cachedScreenshotBlob' = NoBlob
            /\ ZipFailed("create-zip")
  /\ UNCHANGED <<auxVars, revoked, logVars, storage, offscreenExists, offscreenCreating, offscreenPort,
                 stitchCanvas, scrollY, reqVars, shotVars, files, completedSteps,
                 fileIdx, pdfResponse, error,
                 offsets, composites, pdfPath, pdfSource, shotError, dlFailed>>

\* buildFilename(.., 'zip') and downloadDataUrl(zipResponse.blobUrl, zipFilename)
ZipDownload(ok) ==
  /\ pc = "zipDownload"
  /\ Call("download")
  /\ downloads' = Append(downloads, buildFilename(storage, "zip"))
  /\ IF ok
       THEN /\ pc' = "zipRevoke"
            /\ UNCHANGED <<results, dlFailed>>
       ELSE /\ dlFailed' = dlFailed \cup BaseNames(files)
            /\ ZipFailed("download")
  /\ UNCHANGED <<auxVars, revoked, progress, prefsAtStart, persistVars, reqVars, shotVars, files, completedSteps,
                 fileIdx, pdfResponse, error,
                 offsets, composites, pdfPath, pdfSource, shotError>>

\* await sendOffscreenMessage({ type: 'revoke-blob-url', blobUrl: zipResponse.blobUrl })
ZipRevoke ==
  /\ pc = "zipRevoke"
  /\ Call("revoke-blob-url")
  /\ revoked' = revoked \cup {"blob:zip"}
  /\ pc' = "revoke"
  /\ UNCHANGED <<auxVars, logVars, persistVars, reqVars, shotVars, outVars,
                 offsets, composites, pdfPath, pdfSource, shotError, dlFailed>>

\* for (const file of files) { try { await download... } catch { downgrade } }
DownloadFile(ok) ==
  /\ pc = "download"
  /\ fileIdx <= Len(files)
  /\ Call("download")
  /\ downloads' = Append(downloads, files[fileIdx].filename)
  /\ IF ok
       THEN UNCHANGED <<results, dlFailed>>
       ELSE /\ results' = Downgrade(results, Basename(files[fileIdx].filename))
            /\ dlFailed' = dlFailed \cup {Basename(files[fileIdx].filename)}
  /\ fileIdx' = IF fileIdx = Len(files) THEN 1 ELSE fileIdx + 1
  /\ pc' = IF fileIdx = Len(files) THEN "revoke" ELSE "download"
  /\ UNCHANGED <<auxVars, revoked, progress, prefsAtStart, persistVars, reqVars, shotVars, files, completedSteps,
                 pdfResponse, error,
                 offsets, composites, pdfPath, pdfSource, shotError>>

\* for (const file of files) if (file.type === 'blob-url') revoke-blob-url
RevokeBlobUrls ==
  /\ pc = "revoke"
  /\ fileIdx <= Len(files)
  /\ IF files[fileIdx].type = "blob-url"
       THEN Call("revoke-blob-url") /\ revoked' = revoked \cup {files[fileIdx].data}
       ELSE calls' = calls /\ revoked' = revoked
  /\ fileIdx' = fileIdx + 1
  /\ pc' = IF fileIdx = Len(files) THEN "finish" ELSE "revoke"
  /\ UNCHANGED <<auxVars, logVars, persistVars, reqVars, shotVars, results, files, completedSteps,
                 pdfResponse, error,
                 offsets, composites, pdfPath, pdfSource, shotError, dlFailed>>

\* await reportProgress(95, 'Done.'); return results
Finish ==
  /\ pc = "finish"
  /\ pc' = "done"
  /\ progress' = Append(progress, Report(95, "Done."))
  /\ UNCHANGED <<auxVars, revoked, downloads, prefsAtStart, persistVars, reqVars, shotVars, outVars, histVars>>

\* the listener answers { results } or { error }; the request's locals are
\* gone and the next request finds what the contexts keep.
Respond ==
  /\ pc \in {"done", "error"}
  /\ pc' = "idle"
  /\ revoked' = {}
  /\ cachedScreenshotBlob' = IF cachedScreenshotBlob = NoBlob THEN NoBlob ELSE "old"
  /\ scrollY' = 0
  /\ formats' = {}
  /\ tab' = NoTab
  /\ bundleAsZip' = FALSE
  /\ captureResponse' = NoResponse
  /\ injected' = "none"
  /\ screenshotData' = NoShot
  /\ results' = <<>>
  /\ files' = <<>>
  /\ completedSteps' = 0
  /\ fileIdx' = 0
  /\ pdfResponse' = "none"
  /\ error' = NoError
  /\ calls' = {}
  /\ composites' = 0
  /\ pdfPath' = "none"
  /\ pdfSource' = "n/a"
  /\ shotError' = "none"
  /\ dlFailed' = {}
  /\ progress' = <<>>
  /\ downloads' = <<>>
  /\ prefsAtStart' = NoPrefs
  /\ UNCHANGED <<auxVars, storage, offscreenExists, offscreenCreating, offscreenPort,
                 stitchCanvas, dims, currentY, attempt, pos, offsets>>

\* ---------------------------------------------------------- specification
Next ==
  \/ \E fs \in FormatSets : Archive(fs)
  \/ \E t \in Tabs : TabQuery(t)
  \/ ReadPrefs
  \/ \E ok \in BOOLEAN : Inject(ok)
  \/ \E answered, htmlOk, turndownOk \in BOOLEAN :
       \E rd \in ReadabilityOutcomes : Capture(answered, htmlOk, rd, turndownOk)
  \/ \E ok \in BOOLEAN : \E g \in Geometries : GetDimensions(ok, g)
  \/ \E createOk \in BOOLEAN : ShotEnsure(createOk)
  \/ \E outcome \in RasterOutcomes : FastRaster(outcome)
  \/ \E ok \in BOOLEAN : CacheScreenshot(ok)
  \/ StitchInit
  \/ \E ok \in BOOLEAN : ScrollTo(ok)
  \/ Settle
  \/ \E outcome \in RasterOutcomes : Raster(outcome)
  \/ \E ok \in BOOLEAN : StitchAdd(ok)
  \/ \E ok \in BOOLEAN : ScrollTop(ok)
  \/ \E ok \in BOOLEAN : StitchFinalize(ok)
  \/ StageHtml
  \/ StageMarkdown
  \/ StagePng
  \/ StagePdf
  \/ \E createOk \in BOOLEAN : PdfEnsure(createOk)
  \/ \E imageOk \in BOOLEAN : GeneratePdf(imageOk)
  \/ StagePrintPdf
  \/ \E ok \in BOOLEAN : PrintAttach(ok)
  \/ \E ok \in BOOLEAN : PrintCommand(ok)
  \/ \E ok \in BOOLEAN : PrintDetach(ok)
  \/ Deliver
  \/ \E createOk \in BOOLEAN : ZipEnsure(createOk)
  \/ \E ok \in BOOLEAN : CreateZip(ok)
  \/ \E ok \in BOOLEAN : ZipDownload(ok)
  \/ ZipRevoke
  \/ \E ok \in BOOLEAN : DownloadFile(ok)
  \/ RevokeBlobUrls
  \/ Finish
  \/ Respond

Spec == Init /\ [][Next]_vars

\* ------------------------------------------- offscreen.js, pixel by pixel
\* The offscreen document alone, answering the messages of its port one at
\* a time, whatever their order and content.
MaxPaints == 2

StitchInitMsgs ==
  [viewportWidth : {70}, totalHeight : {3, 15999, 16000, 16001},
   devicePixelRatio : {0, DprScale + 1, 2 * DprScale}]
AddCaptureOffsets == {0, 2, 15999, 16000}
TileHeights == {1, 600, 40000}
CachedImages ==
  { [width |-> 70, height |-> 99], [width |-> 70, height |-> 100],
    [width |-> 210, height |-> 891], [width |-> 1, height |-> 3] }

swVars ==
  <<storage, offscreenExists, offscreenCreating, offscreenPort, scrollY, pc,
    reqVars, shotVars, outVars, histVars, logVars, concVars, nameVars, uiVars,
    portVars, revoked, csVars>>

\* catch (err) { cachedScreenshotBlob = null; port.postMessage({ id, error }) }
OnError(type) ==
  /\ cachedScreenshotBlob' = NoBlob
  /\ blobSize' = NoSize
  /\ response' = [type |-> type, kind |-> "error"]
  /\ doc' = NoDoc

\* msg.type === 'stitch-init'
OnStitchInit(msg) ==
  /\ stitchDpr' = DprOf(msg)
  /\ stitchCanvas' = StitchCanvasFor(msg)
  /\ painted' = <<>>
  /\ response' = [type |-> "stitch-init", kind |-> "ok"]
  /\ doc' = NoDoc
  /\ UNCHANGED <<swVars, cachedScreenshotBlob, blobSize>>

\* msg.type === 'stitch-add-capture'; loadImage rejects, or stitchCanvas is
\* null and reading its height throws
OnStitchAddCapture(y, imgHeight, loaded) ==
  /\ Len(painted) < MaxPaints
  /\ IF loaded /\ stitchCanvas.exists
       THEN /\ painted' =
                 IF Paints(stitchCanvas.height - DestY(y, stitchDpr))
                   THEN Append(painted,
                          <<DestY(y, stitchDpr),
                            DrawHeight(imgHeight,
                                       stitchCanvas.height - DestY(y, stitchDpr))>>)
                   ELSE painted
            /\ response' = [type |-> "stitch-add-capture", kind |-> "ok"]
            /\ doc' = NoDoc
            /\ UNCHANGED <<cachedScreenshotBlob, blobSize>>
       ELSE OnError("stitch-add-capture") /\ painted' = painted
  /\ UNCHANGED <<swVars, stitchCanvas, stitchDpr>>

\* stitchCanvas = null; stitchCtx = null
CanvasAfterFinalize_kept(canvas) == canvas

CanvasAfterFinalize(canvas) == NoCanvas

\* msg.type === 'stitch-finalize'; convertToBlob rejects, or stitchCanvas is null
OnStitchFinalize(encoded) ==
  /\ IF encoded /\ stitchCanvas.exists
       THEN /\ cachedScreenshotBlob' = "cur"
            /\ blobSize' = [width |-> stitchCanvas.width, height |-> stitchCanvas.height]
            /\ stitchCanvas' = CanvasAfterFinalize(stitchCanvas)
            /\ painted' = <<>>
            /\ response' = [type |-> "stitch-finalize", kind |-> "blobUrl"]
            /\ doc' = NoDoc
       ELSE OnError("stitch-finalize") /\ UNCHANGED <<stitchCanvas, painted>>
  /\ UNCHANGED <<swVars, stitchDpr>>

\* msg.type === 'cache-screenshot'; dataUrlToBlob rejects
OnCacheScreenshot(img, fetched) ==
  /\ IF fetched
       THEN /\ cachedScreenshotBlob' = "cur"
            /\ blobSize' = img
            /\ response' = [type |-> "cache-screenshot", kind |-> "ok"]
            /\ doc' = NoDoc
       ELSE OnError("cache-screenshot")
  /\ UNCHANGED <<swVars, stitchCanvas, stitchDpr, painted>>

\* msg.type === 'generate-pdf'
OnGeneratePdf(imageOk) ==
  /\ LET path == generatePdfPath(cachedScreenshotBlob, imageOk)
         built == IF path = "text" THEN generateTextPdf
                  ELSE IF path = "image"
                    THEN generatePdf(blobSize.width, blobSize.height)
                    ELSE NoDoc
     IN IF built.pages > 0
          THEN /\ doc' = built
               /\ cachedScreenshotBlob' = NoBlob
               /\ blobSize' = NoSize
               /\ response' = [type |-> "generate-pdf", kind |-> "blobUrl"]
          ELSE OnError("generate-pdf")
  /\ UNCHANGED <<swVars, stitchCanvas, stitchDpr, painted>>

OffscreenInit ==
  Init /\ storage = [bundleAsZip |-> TRUE, subfolder |-> "",
                     filenamePattern |-> DefaultPattern]

OffscreenNext ==
  \/ \E msg \in StitchInitMsgs : OnStitchInit(msg)
  \/ \E y \in AddCaptureOffsets : \E h \in TileHeights : \E loaded \in BOOLEAN :
       OnStitchAddCapture(y, h, loaded)
  \/ \E encoded \in BOOLEAN : OnStitchFinalize(encoded)
  \/ \E img \in CachedImages : \E fetched \in BOOLEAN : OnCacheScreenshot(img, fetched)
  \/ \E imageOk \in BOOLEAN : OnGeneratePdf(imageOk)

OffscreenSpec == OffscreenInit /\ [][OffscreenNext]_vars

\* ------------------------------------------------- concurrent triggers
\* Neither listener waits for a running archivePage, so two executions may
\* interleave at every await.  Each execution is followed from
\* ensureOffscreenDocument to the end of captureFullPageScreenshot on its
\* multi-tile path.  The browser answers getContexts with the contexts that
\* exist when it handles the call, and the completions of browser calls
\* reach the service worker in the order in which the browser produced them.
ConcTiles == 2

ConcCanvas == [width |-> 8, height |-> 8, exists |-> TRUE]

concRest ==
  <<storage, scrollY, pc, reqVars, shotVars, outVars, histVars, logVars, offVars,
    nameVars, uiVars, portVars, revoked, csVars>>

At(t, p) == procs[t].pc = p
Goto(t, p) == procs' = [procs EXCEPT ![t].pc = p]

\* onMessage 'archive' / onCommand 'archive-page': archivePage runs up to the
\* call of ensureOffscreenDocument in captureFullPageScreenshot
Trigger(t) ==
  /\ At(t, "idle")
  /\ procs' = [procs EXCEPT ![t] = [pc |-> "ensure", tiles |-> ConcTiles]]
  /\ UNCHANGED <<concRest, offscreenExists, offscreenCreating, offscreenPort,
                 stitchCanvas, cachedScreenshotBlob, inbox, creating, canvasOf>>

\* chrome.runtime.getContexts: the browser handles the call
GetContexts(t) ==
  /\ At(t, "ensure")
  /\ Goto(t, "contexts")
  /\ inbox' = Append(inbox, [to |-> t, kind |-> "contexts", value |-> offscreenExists])
  /\ UNCHANGED <<concRest, offscreenExists, offscreenCreating, offscreenPort,
                 stitchCanvas, cachedScreenshotBlob, creating, canvasOf>>

\* if (offscreenCreating) await offscreenCreating
JoinsCreation_never(c) == FALSE

JoinsCreation(c) == c # "null"

\* the continuation of await getContexts, up to the next await or to the
\* connection of the port
ContextsAnswer(t) ==
  /\ inbox # <<>>
  /\ Head(inbox) = [to |-> t, kind |-> "contexts", value |-> Head(inbox).value]
  /\ inbox' = Tail(inbox)
  /\ IF Head(inbox).value
       THEN /\ offscreenPort' = TRUE
            /\ Goto(t, "stitchInit")
            /\ UNCHANGED <<offscreenCreating, creating>>
       ELSE IF JoinsCreation(offscreenCreating)
         THEN /\ Goto(t, IF offscreenCreating = "rejected" THEN "failed" ELSE "joined")
              /\ UNCHANGED <<offscreenCreating, creating, offscreenPort>>
         ELSE /\ offscreenCreating' = "pending"
              /\ creating' = creating \cup {t}
              /\ Goto(t, "creating")
              /\ UNCHANGED offscreenPort
  /\ UNCHANGED <<concRest, offscreenExists, stitchCanvas, cachedScreenshotBlob, canvasOf>>

\* chrome.offscreen.createDocument completes in the browser, which refuses
\* a second offscreen document
CreateDocument(t, loaded) ==
  /\ t \in creating
  /\ creating' = creating \ {t}
  /\ offscreenExists' = (offscreenExists \/ loaded)
  /\ inbox' = Append(inbox, [to |-> t, kind |-> "created",
                             value |-> (loaded /\ ~offscreenExists)])
  /\ UNCHANGED <<concRest, offscreenCreating, offscreenPort, stitchCanvas,
                 cachedScreenshotBlob, procs, canvasOf>>

\* the promise in offscreenCreating settles: the creator resets the global
\* when it resolved, and every execution awaiting it continues or throws
CreatedAnswer(t) ==
  /\ inbox # <<>>
  /\ Head(inbox) = [to |-> t, kind |-> "created", value |-> Head(inbox).value]
  /\ inbox' = Tail(inbox)
  /\ offscreenCreating' = IF Head(inbox).value THEN "null" ELSE "rejected"
  /\ offscreenPort' = (offscreenPort \/ Head(inbox).value)
  /\ procs' = [u \in Triggers |->
                 IF u = t \/ procs[u].pc = "joined"
                   THEN [procs[u] EXCEPT
                           !.pc = IF Head(inbox).value THEN "stitchInit" ELSE "failed"]
                   ELSE procs[u]]
  /\ UNCHANGED <<concRest, offscreenExists, stitchCanvas, cachedScreenshotBlob,
                 creating, canvasOf>>

\* 'stitch-init' request and its handler
StitchInitOf(t) ==
  /\ At(t, "stitchInit")
  /\ stitchCanvas' = ConcCanvas
  /\ canvasOf' = t
  /\ Goto(t, "tile")
  /\ UNCHANGED <<concRest, offscreenExists, offscreenCreating, offscreenPort,
                 cachedScreenshotBlob, inbox, creating>>

\* scroll-to, the settle delay and the captureVisibleTab attempts of one tile
CaptureTileOf(t, ok) ==
  /\ At(t, "tile")
  /\ Goto(t, IF ok THEN "add" ELSE "failed")
  /\ UNCHANGED <<concRest, offscreenExists, offscreenCreating, offscreenPort,
                 stitchCanvas, cachedScreenshotBlob, inbox, creating, canvasOf>>

\* 'stitch-add-capture' request and its handler; reading the height of a
\* null stitchCanvas throws
StitchAddOf(t, loaded) ==
  /\ At(t, "add")
  /\ IF loaded /\ stitchCanvas.exists
       THEN /\ procs' = [procs EXCEPT
                           ![t] = [pc |-> IF procs[t].tiles = 1 THEN "scrollTop" ELSE "tile",
                                   tiles |-> procs[t].tiles - 1]]
            /\ UNCHANGED cachedScreenshotBlob
       ELSE /\ cachedScreenshotBlob' = NoBlob
            /\ Goto(t, "failed")
  /\ UNCHANGED <<concRest, offscreenExists, offscreenCreating, offscreenPort,
                 stitchCanvas, inbox, creating, canvasOf>>

\* the scroll back to the top
ScrollTopOf(t, ok) ==
  /\ At(t, "scrollTop")
  /\ Goto(t, IF ok THEN "finalize" ELSE "failed")
  /\ UNCHANGED <<concRest, offscreenExists, offscreenCreating, offscreenPort,
                 stitchCanvas, cachedScreenshotBlob, inbox, creating, canvasOf>>

\* 'stitch-finalize' request and its handler
StitchFinalizeOf(t, encoded) ==
  /\ At(t, "finalize")
  /\ IF encoded /\ stitchCanvas.exists
       THEN /\ cachedScreenshotBlob' = "cur"
            /\ stitchCanvas' = NoCanvas
            /\ canvasOf' = "none"
            /\ Goto(t, "done")
       ELSE /\ cachedScreenshotBlob' = NoBlob
            /\ Goto(t, "failed")
            /\ UNCHANGED <<stitchCanvas, canvasOf>>
  /\ UNCHANGED <<concRest, offscreenExists, offscreenCreating, offscreenPort,
                 inbox, creating>>

\* captureFullPageScreenshot has returned or thrown
Return(t) ==
  /\ procs[t].pc \in {"done", "failed"}
  /\ procs' = [procs EXCEPT ![t] = IdleProc]
  /\ UNCHANGED <<concRest, offscreenExists, offscreenCreating, offscreenPort,
                 stitchCanvas, cachedScreenshotBlob, inbox, creating, canvasOf>>

ConcInit ==
  Init /\ storage = [bundleAsZip |-> TRUE, subfolder |-> "",
                     filenamePattern |-> DefaultPattern]

ConcNext ==
  \E t \in Triggers :
    \/ Trigger(t)
    \/ GetContexts(t)
    \/ ContextsAnswer(t)
    \/ \E loaded \in BOOLEAN : CreateDocument(t, loaded)
    \/ CreatedAnswer(t)
    \/ StitchInitOf(t)
    \/ \E ok \in BOOLEAN : CaptureTileOf(t, ok)
    \/ \E loaded \in BOOLEAN : StitchAddOf(t, loaded)
    \/ \E ok \in BOOLEAN : ScrollTopOf(t, ok)
    \/ \E encoded \in BOOLEAN : StitchFinalizeOf(t, encoded)
    \/ Return(t)

ConcSpec == ConcInit /\ [][ConcNext]_vars

\* ------------------------------------------------------------ file naming
\* sanitizeFilename and buildFilename alone, on titles, patterns and URLs of
\* any content: one call from the initial state, then sanitizeFilename
\* applied to what the call returned.
MaxTextLen == 2

\* the strings of at most n code units over an alphabet
Strings(chars, n) == UNION {[1..k -> chars] : k \in 0..n}

Repeat(c, n) == [i \in 1..n |-> c]

TitleChars == {"a", " ", "TAB", "/", "$", "&", "GRAVE", "{"}
SanitizeChars == {"a", " ", "NBSP", "TAB", "<", "DEL"}

PageTitles ==
  Strings(TitleChars, MaxTextLen)
    \cup { PageTitle, TokTimestamp, <<"a", "$", "APOS", "!">>,
           Repeat("a", MaxNameLength - 1) \o <<" ", " ", "b", "c">> }

NamePatterns ==
  { DefaultPattern,
    TokTitle \o <<"-">> \o TokDate,
    TokTitle \o TokTitle,
    <<".", ".", "/">> \o TokHostname,
    <<"a", " ", "\\">> \o TokTitle \o <<"?">>,
    TokTimestamp \o <<":">> \o TokTitle,
    Repeat("x", MaxNameLength + 5) \o <<"/">> \o TokTitle,
    <<>> }

PageUrls ==
  { [valid |-> TRUE, hostname |-> <<"e", "x", "a", "m", "p", "l", "e", ".", "c", "o", "m">>],
    [valid |-> TRUE, hostname |-> <<"w", "w", "w", ".", "e", "x", "a", "m", "p", "l", "e", ".", "c", "o", "m">>],
    [valid |-> TRUE, hostname |-> <<"[", ":", ":", "1", "]">>],
    NoUrl }

SanitizeInputs ==
  { prefix \o str :
      prefix \in {<<>>, Repeat("a", MaxNameLength - 1), Repeat("b", MaxNameLength)},
      str \in Strings(SanitizeChars, MaxTextLen) }

otherVars ==
  <<persistVars, pc, reqVars, shotVars, outVars, histVars, logVars, offVars,
    concVars, uiVars, portVars, revoked, csVars>>

\* buildFilename(pageTitle, pageUrl, ext) with the preference record data
BuildFilename(data, pageTitle, pageUrl, ext) ==
  /\ resolved = NoResolved
  /\ sanitized = NoSanitized
  /\ resolved' =
       [pattern |-> data.filenamePattern, pageTitle |-> pageTitle,
        pageUrl |-> pageUrl, clock |-> PageClock,
        file |-> buildFilenameFor(data, pageTitle, pageUrl, PageClock, ext)]
  /\ UNCHANGED <<otherVars, sanitized>>

\* sanitizeFilename(str)
Sanitize(str) ==
  /\ resolved = NoResolved
  /\ sanitized = NoSanitized
  /\ sanitized' = [input |-> str, output |-> sanitizeFilename(str)]
  /\ UNCHANGED <<otherVars, resolved>>

\* sanitizeFilename applied to the name buildFilename resolved
SanitizeName ==
  /\ resolved # NoResolved
  /\ sanitized = NoSanitized
  /\ sanitized' = [input |-> resolved.file.stem,
                   output |-> sanitizeFilename(resolved.file.stem)]
  /\ UNCHANGED <<otherVars, resolved>>

\* sanitizeFilename applied to its own result
SanitizeAgain ==
  /\ sanitized.input # sanitized.output
  /\ sanitized' = [input |-> sanitized.output,
                   output |-> sanitizeFilename(sanitized.output)]
  /\ UNCHANGED <<otherVars, resolved>>

NameInit ==
  Init /\ storage = [bundleAsZip |-> TRUE, subfolder |-> "",
                     filenamePattern |-> DefaultPattern]

NameNext ==
  \/ \E pattern \in NamePatterns : \E subfolder \in Subfolders :
       \E pageTitle \in PageTitles : \E pageUrl \in PageUrls :
         BuildFilename([filenamePattern |-> pattern, subfolder |-> subfolder],
                       pageTitle, pageUrl, "html")
  \/ \E str \in SanitizeInputs : Sanitize(str)
  \/ SanitizeName
  \/ SanitizeAgain

NameSpec == NameInit /\ [][NameNext]_vars

\* ---------------------------------------------- the options page saves
\* saveOptions of the options page may run at any await of a request.  The
\* request is followed on a page whose extraction, printing and bundling
\* succeed, for the formats that need no screenshot.
PrefsFormatSets == (SUBSET {"html", "printpdf"}) \ {{}}

PrefsTab == [present |-> TRUE, url |-> HttpsScheme \o <<"a", ".", "c", "o", "m">>]

SavedOptions ==
  [bundleAsZip : BOOLEAN, subfolder : Subfolders, filenamePattern : SavedPatterns]

\* chrome.storage.sync.set(options)
SaveOptions(options) ==
  /\ storage' = options
  /\ storedFormats' = StoredFormats(FORMAT_IDS, loadOptions(storedFormats))
  /\ UNCHANGED <<offscreenExists, offscreenCreating, offscreenPort,
                 cachedScreenshotBlob, stitchCanvas, scrollY, pc, reqVars, shotVars,
                 outVars, histVars, logVars, offVars, concVars, nameVars,
                 popupChecked, shortcut, portVars, revoked, csVars>>

PrefsNext ==
  \/ \E fs \in PrefsFormatSets : Archive(fs)
  \/ TabQuery(PrefsTab)
  \/ ReadPrefs
  \/ Inject(TRUE)
  \/ Capture(TRUE, TRUE, "article", TRUE)
  \/ StageHtml
  \/ StageMarkdown
  \/ StagePng
  \/ StagePdf
  \/ StagePrintPdf
  \/ PrintAttach(TRUE)
  \/ PrintCommand(TRUE)
  \/ PrintDetach(TRUE)
  \/ Deliver
  \/ ZipEnsure(TRUE)
  \/ CreateZip(TRUE)
  \/ \E ok \in BOOLEAN : ZipDownload(ok)
  \/ ZipRevoke
  \/ \E ok \in BOOLEAN : DownloadFile(ok)
  \/ RevokeBlobUrls
  \/ Finish
  \/ Respond
  \/ \E options \in SavedOptions : SaveOptions(options)

PrefsSpec == Init /\ [][PrefsNext]_vars

\* ------------------------------------- the saved formats and the shortcut
\* The options page, the popup and the 'archive-page' command, in any
\* order, over the 'formats' key of the preference record.
DefaultRecord ==
  [bundleAsZip |-> TRUE, subfolder |-> "", filenamePattern |-> DefaultPattern]

shortcutRest ==
  <<offscreenExists, offscreenCreating, offscreenPort, cachedScreenshotBlob,
    stitchCanvas, scrollY, pc, reqVars, shotVars, outVars, histVars, logVars,
    offVars, concVars, nameVars, portVars, revoked, csVars>>

\* the popup opens: its checkboxes are set from the stored record
OpenPopup ==
  /\ popupChecked' = Checked(storedFormats, PopupFormatIds)
  /\ UNCHANGED <<storage, storedFormats, shortcut, shortcutRest>>

\* a checkbox of the popup changes: chrome.storage.sync.set({ formats })
\* with one key per id of the popup
PopupChange(fmt) ==
  /\ popupChecked' = IF fmt \in popupChecked THEN popupChecked \ {fmt}
                                               ELSE popupChecked \cup {fmt}
  /\ storedFormats' = StoredFormats(PopupFormatIds, popupChecked')
  /\ UNCHANGED <<storage, shortcut, shortcutRest>>

\* saveOptions after the user set the format checkboxes to `checked`, the
\* other fields being those the page loaded
SaveFormats(checked) ==
  /\ storedFormats' = StoredFormats(FORMAT_IDS, checked)
  /\ UNCHANGED <<storage, popupChecked, shortcut, shortcutRest>>

\* resetOptions: chrome.storage.sync.set(DEFAULTS)
ResetOptions ==
  /\ storage' = DefaultRecord
  /\ storedFormats' = StoredFormats(FORMAT_IDS, FORMAT_IDS)
  /\ UNCHANGED <<popupChecked, shortcut, shortcutRest>>

\* chrome.commands.onCommand 'archive-page': if (formats.length === 0) return
OnCommand ==
  /\ shortcut' = [fired |-> TRUE, record |-> storedFormats,
                  formats |-> ShortcutFormats(storedFormats),
                  started |-> ShortcutFormats(storedFormats) # {}]
  /\ UNCHANGED <<storage, storedFormats, popupChecked, shortcutRest>>

ShortcutInit == Init /\ storage = DefaultRecord

ShortcutNext ==
  \/ OpenPopup
  \/ \E fmt \in PopupFormatIds : PopupChange(fmt)
  \/ \E checked \in SUBSET FORMAT_IDS : SaveFormats(checked)
  \/ ResetOptions
  \/ OnCommand

ShortcutSpec == ShortcutInit /\ [][ShortcutNext]_vars

\* ------------------------------------------- termination of one request
\* A raster-image request on a valid target, for every geometry the content
\* script can report, a zero viewport height or page height included
\* (window.innerHeight, scrollHeight).  Every external call settles.  The
\* offsets of the first MaxCycles scroll-capture cycles of one capture are
\* recorded, one more than the tallest page of TermGeometries needs with a
\* viewport height of one; the loop itself runs on as the code's does.
TermGeometries ==
  [scrollHeight : 0..(MaxCycles - 1), viewportWidth : {4},
   viewportHeight : 0..2, devicePixelRatio : PixelRatios]

\* 'stitch-add-capture' of a cycle past the recorded ones: the same step of
\* the loop (currentY += viewportHeight, then the loop test), offsets kept
StitchAddUnrecorded ==
  /\ pc = "add"
  /\ Len(offsets) >= MaxCycles
  /\ Call("stitch-add-capture")
  /\ currentY' = NextY(currentY, dims)
  /\ pc' = LoopPc(NextY(currentY, dims))
  /\ UNCHANGED <<auxVars, revoked, logVars, persistVars, reqVars, dims,
                 attempt, pos, screenshotData, outVars, offsets, composites,
                 pdfPath, pdfSource, shotError, dlFailed>>

TermInit ==
  Init /\ storage = [bundleAsZip |-> FALSE, subfolder |-> "",
                     filenamePattern |-> DefaultPattern]

TermNext ==
  \/ Archive({"png"})
  \/ TabQuery(PrefsTab)
  \/ ReadPrefs
  \/ \E ok \in BOOLEAN : Inject(ok)
  \/ \E answered \in BOOLEAN : Capture(answered, TRUE, "article", TRUE)
  \/ \E ok \in BOOLEAN : \E g \in TermGeometries : GetDimensions(ok, g)
  \/ ShotEnsure(TRUE)
  \/ \E outcome \in RasterOutcomes : FastRaster(outcome)
  \/ \E ok \in BOOLEAN : CacheScreenshot(ok)
  \/ StitchInit
  \/ \E ok \in BOOLEAN : ScrollTo(ok)
  \/ Settle
  \/ \E outcome \in RasterOutcomes : Raster(outcome)
  \/ \E ok \in BOOLEAN : Len(offsets) < MaxCycles /\ StitchAdd(ok)
  \/ StitchAddUnrecorded
  \/ \E ok \in BOOLEAN : ScrollTop(ok)
  \/ \E ok \in BOOLEAN : StitchFinalize(ok)
  \/ StageHtml
  \/ StageMarkdown
  \/ StagePng
  \/ StagePdf
  \/ StagePrintPdf
  \/ Deliver
  \/ \E ok \in BOOLEAN : DownloadFile(ok)
  \/ RevokeBlobUrls
  \/ Finish
  \/ Respond

\* the service worker keeps running the request: whenever a step of it is
\* possible, one is eventually taken
TermSpec == TermInit /\ [][TermNext]_vars /\ WF_vars(TermNext)

\* ------------------------------------- injections into one document
\* executeScript runs content-script.js again in the same isolated world at
\* every capture; a navigation replaces the document and its window.
CsMessages == {"capture", "get-page-dimensions", "scroll-to"}

CsDims ==
  [scrollHeight |-> 9, viewportWidth |-> 4, viewportHeight |-> 2,
   devicePixelRatio |-> 2 * DprScale]

\* if (!window.__webpageArchiverInjected)
RegistersListener_always(flag) == TRUE

RegistersListener(flag) == ~flag

csRest ==
  <<storage, offscreenExists, offscreenCreating, offscreenPort, cachedScreenshotBlob,
    stitchCanvas, pc, reqVars, shotVars, outVars, histVars, logVars, offVars,
    concVars, nameVars, uiVars, portVars, revoked>>

\* chrome.scripting.executeScript runs the file in the document
InjectContentScript ==
  /\ injections < MaxInjections
  /\ injections' = injections + 1
  /\ webpageArchiverInjected' = TRUE
  /\ listeners' = IF RegistersListener(webpageArchiverInjected)
                    THEN listeners + 1 ELSE listeners
  /\ UNCHANGED <<lastMsg, scrollY, csRest>>

\* chrome.tabs.sendMessage: every registered listener is called with the
\* message; the listener of the content script handles the three types and
\* scroll-to calls window.scrollTo once per handling
TabMessage(type, y) ==
  /\ lastMsg' = [type |-> type, y |-> IF type = "scroll-to" THEN y ELSE 0,
                 handled |-> listeners,
                 scrolls |-> IF type = "scroll-to" THEN listeners ELSE 0]
  /\ scrollY' = IF type = "scroll-to" /\ listeners > 0
                  THEN scrollToPosition(y, CsDims) ELSE scrollY
  /\ UNCHANGED <<webpageArchiverInjected, listeners, injections, csRest>>

\* the tab navigates: a new document, without flag and without listener
Navigate ==
  /\ webpageArchiverInjected' = FALSE
  /\ listeners' = 0
  /\ injections' = 0
  /\ scrollY' = 0
  /\ lastMsg' = NoMsg
  /\ UNCHANGED csRest

InjectInit ==
  Init /\ storage = [bundleAsZip |-> TRUE, subfolder |-> "",
                     filenamePattern |-> DefaultPattern]

InjectNext ==
  \/ InjectContentScript
  \/ \E type \in CsMessages : \E y \in 0..CsDims.scrollHeight : TabMessage(type, y)
  \/ Navigate

InjectSpec == InjectInit /\ [][InjectNext]_vars

\* ------------------------------------------------- the port, by message
\* sendOffscreenMessage and the port.onMessage listener of the offscreen
\* document.  Several calls may be pending (two archivePage executions);
\* the port delivers in order in each direction, the async listener of the
\* offscreen document may finish its requests in any order.
PortTypes == {"stitch-add-capture", "stitch-finalize"}

\* port.postMessage({ id, ok: true }) or port.postMessage({ id, blobUrl })
SuccessKind(type) == IF type = "stitch-finalize" THEN "blobUrl" ELSE "ok"

\* if (response.id !== id) return
IsOwnResponse_any(resp, id) == TRUE

IsOwnResponse(resp, id) == resp.id = id

\* the listeners of an event run in the order of their registration
RECURSIVE Ascending(_)
Ascending(S) ==
  IF S = {} THEN <<>> ELSE <<MinOf(S)>> \o Ascending(S \ {MinOf(S)})

portRest ==
  <<persistVars, pc, reqVars, shotVars, outVars, histVars, logVars, offVars,
    concVars, nameVars, uiVars, revoked, csVars>>

\* const id = ++msgIdCounter; addListener(handler); postMessage({ ...msg, id })
sendOffscreenMessage(type) ==
  /\ msgIdCounter < MaxMsgs
  /\ msgIdCounter' = msgIdCounter + 1
  /\ portHandlers' = portHandlers \cup {msgIdCounter'}
  /\ toOffscreen' = Append(toOffscreen, [id |-> msgIdCounter', type |-> type])
  /\ UNCHANGED <<handling, toWorker, posted, settled, portRest>>

\* port.onMessage listener of the offscreen document: the request is
\* received and its handler runs up to its first await
OnPortMessage ==
  /\ toOffscreen # <<>>
  /\ handling' = handling \cup {Head(toOffscreen)}
  /\ toOffscreen' = Tail(toOffscreen)
  /\ UNCHANGED <<msgIdCounter, portHandlers, toWorker, posted, settled, portRest>>

\* the handler finishes: one postMessage with the id of the request, from
\* its branch or from the catch
PostResponse(msg, ok) ==
  /\ msg \in handling
  /\ handling' = handling \ {msg}
  /\ LET resp == [id |-> msg.id,
                  kind |-> IF ok THEN SuccessKind(msg.type) ELSE "error"]
     IN /\ toWorker' = Append(toWorker, resp)
        /\ posted' = Append(posted, resp)
  /\ UNCHANGED <<msgIdCounter, portHandlers, toOffscreen, settled, portRest>>

\* a response is dispatched to every registered handler: the one that takes
\* it removes itself and resolves or rejects its promise
OnPortResponse ==
  /\ toWorker # <<>>
  /\ toWorker' = Tail(toWorker)
  /\ LET resp == Head(toWorker)
         takers == {id \in portHandlers : IsOwnResponse(resp, id)}
         ordered == Ascending(takers)
     IN /\ portHandlers' = portHandlers \ takers
        /\ settled' = settled \o [i \in DOMAIN ordered |->
                                    [call |-> ordered[i], id |-> resp.id,
                                     kind |-> resp.kind]]
  /\ UNCHANGED <<msgIdCounter, toOffscreen, handling, posted, portRest>>

PortInit ==
  Init /\ storage = [bundleAsZip |-> TRUE, subfolder |-> "",
                     filenamePattern |-> DefaultPattern]

PortNext ==
  \/ \E type \in PortTypes : sendOffscreenMessage(type)
  \/ OnPortMessage
  \/ \E msg \in handling : \E ok \in BOOLEAN : PostResponse(msg, ok)
  \/ OnPortResponse

\* the browser delivers every port message, and every await of a handler of
\* the offscreen document settles
PortSpec ==
  /\ PortInit
  /\ [][PortNext]_vars
  /\ WF_vars(OnPortMessage)
  /\ WF_vars(\E msg \in handling : \E ok \in BOOLEAN : PostResponse(msg, ok))
  /\ WF_vars(OnPortResponse)

\* ------------------------------------------------ vocabulary of the claims
\* order of the positions of archivePage (the error exit comes first)
PcOrder ==
  <<"error", "idle", "query", "prefs", "inject", "capture",
    "dims", "ensure1", "fastRaster", "cache", "stitchInit", "scroll", "settle",
    "raster", "add", "scrollTop", "finalize",
    "html", "markdown", "png", "pdf", "pdfEnsure", "pdfGen",
    "printpdf", "attach", "print", "detachReturn", "detachThrow",
    "deliver", "zipEnsure", "zipCreate", "zipDownload", "zipRevoke", "download",
    "revoke", "finish", "done">>

Rank(p) == CHOOSE i \in DOMAIN PcOrder : PcOrder[i] = p

\* last position of the stage of each format
StageEnd ==
  [f \in FORMAT_IDS |->
     CASE f = "html" -> Rank("html")
       [] f = "markdown" -> Rank("markdown")
       [] f = "png" -> Rank("png")
       [] f = "pdf" -> Rank("pdfGen")
       [] f = "printpdf" -> Rank("detachThrow")]

StagesOver == Rank(pc) >= Rank("deliver")
InDelivery == Rank(pc) >= Rank("deliver") /\ Rank(pc) <= Rank("revoke")

EntriesOf(f) == {i \in DOMAIN results : results[i].label.prefix = LabelOf[f]}

\* the entry was recorded as a success (a later download failure may have
\* downgraded it)
RecordedSuccess(e) == e.success \/ e.label.suffix = "download failed"

HasFile(ext) == \E i \in DOMAIN files : files[i].filename.ext = ext

\* ------------------------------------------------------------------ claims

\* C1: once the capture agent is established, whatever the stages' failures,
\* every requested format whose stage is over has a recorded outcome in the
\* result list, the document stages have issued their calls, and the request
\* never ends in the error exit.
C1_StagesIndependent ==
  /\ \A f \in formats : Rank(pc) > StageEnd[f] => EntriesOf(f) # {}
  /\ (needsPdf /\ Rank(pc) > StageEnd["pdf"]) => "ensureOffscreenDocument" \in calls
  /\ (needsPrintPdf /\ Rank(pc) > StageEnd["printpdf"]) => "debugger.attach" \in calls
  /\ (pc = "error" => error \in {ErrNoTab, ErrInternal, ErrInject, ErrCapture})

\* C1 witness: a finished request with a failed format next to a succeeded one
C1_Witness ==
  /\ pc = "done"
  /\ \E i, j \in DOMAIN results :
       /\ ~results[i].success
       /\ results[i].label.suffix = ""
       /\ results[i].label.prefix # "ZIP"
       /\ results[j].success
       /\ Len(results) = Cardinality(formats)

\* C2 (as claimed): the returned list holds exactly one entry per requested
\* format, also when the ZIP bundle fails.
C2_OneEntryPerFormat ==
  pc = "done" =>
    /\ Len(results) = Cardinality(formats)
    /\ \A f \in formats : Cardinality(EntriesOf(f)) = 1

\* C3 (as claimed): every recorded entry whose file's download failed,
\* individually or as part of the ZIP bundle, is downgraded to a failure with
\* the reason appended.
C3_DownloadFailureDowngrades ==
  \A i \in DOMAIN results :
    (results[i].label.file # NoFile /\ Basename(results[i].label.file) \in dlFailed)
      => (~results[i].success /\ results[i].label.suffix = "download failed")

\* C4: within a request the result list only grows; a recorded entry keeps
\* its format, file and reason, its success flag never turns from false to
\* true, and it turns from true to false only in the delivery stage.
C4_ResultsOnlyGrow ==
  [][pc \notin {"done", "error"} =>
       /\ Len(results') >= Len(results)
       /\ \A i \in DOMAIN results :
            /\ results'[i].label.prefix = results[i].label.prefix
            /\ results'[i].label.file = results[i].label.file
            /\ results'[i].label.reason = results[i].label.reason
            /\ (results'[i].success => results[i].success)
            /\ (results'[i] # results[i] =>
                  /\ InDelivery
                  /\ results[i].success
                  /\ results'[i].label.suffix = "download failed")]_vars

\* C4 witness: an entry has been downgraded next to an untouched entry
C4_Witness ==
  \E i, j \in DOMAIN results :
    /\ results[i].label.suffix = "download failed"
    /\ ~results[i].success
    /\ results[j].success

\* C5: a target with an internal scheme ends the request at once with the
\* fatal error; only the tab query has been issued and nothing is recorded.
C5_InternalTargetFatal ==
  (tab.present /\ (\/ StartsWith(tab.url, ChromeScheme)
                   \/ StartsWith(tab.url, ExtensionScheme)
                   \/ StartsWith(tab.url, AboutScheme)))
    => /\ pc = "error"
       /\ error = ErrInternal
       /\ calls = {"tabs.query"}
       /\ injected = "none"
       /\ results = <<>>
       /\ files = <<>>

\* C5 witness: the request for an about: page has ended with the fatal error
C5_Witness ==
  /\ StartsWith(tab.url, AboutScheme)
  /\ pc = "error"
  /\ error = ErrInternal

\* C6: a rejected injection or a capture response carrying an error ends the
\* request with an error; no rasterization, rendering-context or download
\* call has been issued and no entry or file has been recorded.
C6_AgentFailureFatal ==
  (injected = "rejected" \/ captureResponse.error)
    => /\ pc = "error"
       /\ error \in {ErrInject, ErrCapture}
       /\ calls \subseteq {"tabs.query", "storage.get", "executeScript", "capture"}
       /\ results = <<>>
       /\ files = <<>>
       /\ composites = 0

\* C6 witness: both ways of failing have ended a request
C6_Witness ==
  /\ pc = "error"
  /\ captureResponse.error
  /\ injected = "ok"

\* C7 (as claimed): after a tile capture failed with its rate-limit retries
\* exhausted, every requested raster-image and paginated-document entry is
\* recorded as a failure.
C7_ImageAndDocumentFail ==
  (shotError = "rate-limit" /\ StagesOver) =>
    \A f \in {"png", "pdf"} : \A i \in EntriesOf(f) : ~RecordedSuccess(results[i])

\* C7 (amended): after a tile capture failed with its rate-limit retries
\* exhausted, the raster-image entry is recorded as the failure 'capture
\* failed'; the paginated-document entry is recorded by its own stage, as a
\* success exactly when generate-pdf returned a handle (always so when the
\* slot was empty); the text formats' entries follow the extraction alone.
C7_RasterFailureScope ==
  (shotError = "rate-limit" /\ StagesOver) =>
    /\ needsPng =>
         /\ EntriesOf("png") # {}
         /\ \A i \in EntriesOf("png") :
              ~RecordedSuccess(results[i]) /\ results[i].label.reason = "capture failed"
    /\ needsPdf =>
         /\ EntriesOf("pdf") # {}
         /\ \A i \in EntriesOf("pdf") :
              /\ RecordedSuccess(results[i]) <=> pdfResponse = "blobUrl"
              /\ pdfSource = "none" => RecordedSuccess(results[i])
    /\ needsHtml =>
         \A i \in EntriesOf("html") : RecordedSuccess(results[i]) <=> captureResponse.html
    /\ needsMarkdown =>
         \A i \in EntriesOf("markdown") :
           RecordedSuccess(results[i]) <=> captureResponse.markdown # "none"

\* C7 witness: retries exhausted, PNG failed, the document and the markup
\* succeeded
C7_Witness ==
  /\ pc = "done"
  /\ shotError = "rate-limit"
  /\ \E i \in EntriesOf("png") : ~results[i].success
  /\ \E i \in EntriesOf("pdf") : results[i].success
  /\ \E i \in EntriesOf("html") : results[i].success

\* C8: when generate-pdf finds the slot empty the renderer builds the
\* text-only document and answers with a handle, and the paginated-document
\* entry is recorded as a success with its file collected.
C8_TextFallbackIsSuccess ==
  pdfSource = "none" =>
    /\ pdfPath = "text"
    /\ pdfResponse = "blobUrl"
    /\ EntriesOf("pdf") # {}
    /\ \A i \in EntriesOf("pdf") :
         /\ RecordedSuccess(results[i])
         /\ results[i].label.reason = ""
         /\ results[i].label.file.ext \in {"pdf", "screenshot.pdf"}
    /\ \E k \in DOMAIN files : files[k].data = "blob:pdf"

\* C8 witness: the screenshot failed, the document was requested and its
\* entry is a success
C8_Witness ==
  /\ pc = "done"
  /\ pdfSource = "none"
  /\ screenshotData = NoShot
  /\ shotError # "none"
  /\ \E i \in EntriesOf("pdf") : results[i].success

\* C9: a request produces at most one composite; the raster-image file is
\* collected and a composite of this request is rendered only when it has
\* been produced, and a composite is produced only by the acknowledged
\* cache-screenshot or stitch-finalize, before any file is collected and
\* before generate-pdf is sent.
C9_OneCompositeBeforeUse ==
  /\ [](/\ composites <= 1
        /\ (HasFile("png") => composites = 1)
        /\ (pdfSource = "cur" => composites = 1))
  /\ [][composites' > composites =>
          /\ pc \in {"cache", "finalize"}
          /\ files = <<>>
          /\ results = <<>>
          /\ pdfSource = "n/a"]_vars

\* C9 witness: the composite of this request fed both dependent formats
C9_Witness ==
  /\ composites = 1
  /\ HasFile("png")
  /\ pdfSource = "cur"
  /\ pdfPath = "image"

StitchCalls == {"scroll-to", "stitch-init", "stitch-add-capture", "stitch-finalize"}

\* C11: a page no taller than one viewport, and only such a page, takes the
\* fast path: one rasterization, then cache-screenshot, then the return; no
\* scroll command and no stitch message is sent, and the raster is both the
\* composite cached for the renderer and the raster-image file.
C11_FastPathSingleTile ==
  /\ [](/\ (Rank(pc) > Rank("ensure1") /\ Rank(pc) <= Rank("finalize")) =>
             (dims.scrollHeight <= dims.viewportHeight <=> pc \in {"fastRaster", "cache"})
        /\ pc = "fastRaster" => "captureVisibleTab" \notin calls
        /\ pc \in {"fastRaster", "cache"} => calls \cap StitchCalls = {}
        /\ screenshotData = "dataUrl" =>
             /\ calls \cap StitchCalls = {}
             /\ {"captureVisibleTab", "cache-screenshot"} \subseteq calls
             /\ composites = 1
             /\ (pdfSource = "n/a" /\ Rank(pc) <= Rank("pdfGen")) =>
                  cachedScreenshotBlob = "cur"
             /\ \A k \in DOMAIN files :
                  files[k].filename.ext = "png" => files[k].data = "png-base64")
  /\ [][/\ pc = "fastRaster" => pc' \in {"cache", "html"}
        /\ pc = "cache" =>
             /\ pc' = "html"
             /\ calls' = calls \cup {"cache-screenshot"}
             /\ (screenshotData' = "dataUrl" <=> cachedScreenshotBlob' = "cur")]_vars

\* C11 witness: the fast path has returned; its raster is cached for the
\* renderer and collected as the raster-image file
C11_Witness ==
  /\ pc = "pdf"
  /\ screenshotData = "dataUrl"
  /\ cachedScreenshotBlob = "cur"
  /\ calls \cap StitchCalls = {}
  /\ \E k \in DOMAIN files : files[k].data = "png-base64"

\* C12 (as claimed): every tile capture, the single tile of the fast path
\* included, fails on the rate-limit condition only after exactly 3 attempts.
C12_ThreeAttemptsEveryTile ==
  [][(pc \in {"raster", "fastRaster"} /\ shotError' = "rate-limit") =>
        attempt + 1 = 3]_vars

\* C12 (amended): in the tile loop a rate-limit rejection is retried while
\* fewer than 3 attempts were made and is thrown at the third; a success ends
\* the attempts of the tile; any other rejection is thrown at once.  The one
\* rasterization of the fast path is never retried.
C12_RetryBounded ==
  /\ [](pc = "raster" =>
          /\ attempt \in 0..2
          /\ ~ENABLED (Raster("ok") /\ pc' # "add")
          /\ ~ENABLED (Raster("other") /\ ~(pc' = "html" /\ shotError' = "other"))
          /\ attempt + 1 < 3 =>
               ~ENABLED (Raster("rate-limit") /\ ~(pc' = "raster" /\ attempt' = attempt + 1))
          /\ attempt + 1 = 3 =>
               ~ENABLED (Raster("rate-limit") /\ ~(pc' = "html" /\ shotError' = "rate-limit")))
  /\ [][/\ (pc = "raster" /\ shotError' = "rate-limit") => attempt + 1 = 3
        /\ pc = "fastRaster" => (pc' \in {"cache", "html"} /\ attempt' = attempt)]_vars

\* C12 witness: the third attempt of the second tile hit the rate limit
C12_Witness ==
  /\ pc = "html"
  /\ shotError = "rate-limit"
  /\ "stitch-add-capture" \in calls

\* C15: the tile pipeline is strictly sequential: stitch-init, then for each
\* tile the answered scroll command, the settle delay, the rasterization
\* attempts and the acknowledged stitch-add-capture, and only then the next
\* scroll command or the scroll to the top; every step issues at most one
\* call and the next call is issued only by a later step.
C15_StrictAlternation ==
  [][/\ Cardinality(calls' \ calls) <= 1
     /\ pc = "stitchInit" => pc' = "scroll"
     /\ pc = "scroll" =>
          /\ pc' \in {"settle", "html"}
          /\ calls' = calls \cup {"scroll-to"}
     /\ pc = "settle" => (pc' = "raster" /\ calls' = calls)
     /\ pc = "raster" =>
          /\ pc' \in {"raster", "add", "html"}
          /\ calls' = calls \cup {"captureVisibleTab"}
          /\ offsets' \in {offsets, <<>>}
     /\ pc = "add" =>
          /\ pc' \in {"scroll", "scrollTop", "html"}
          /\ calls' = calls \cup {"stitch-add-capture"}
          /\ pc' # "html" => offsets' = Append(offsets, pos)]_vars

\* C15 witness: the second tile's scroll command was answered after the first
\* tile was acknowledged
C15_Witness ==
  /\ pc = "settle"
  /\ Len(offsets) = 1
  /\ pos > offsets[1]

\* C18 (as claimed): whatever the outcome of the scroll back to the top,
\* stitch-finalize is sent next.
C18_ScrollResetIgnored ==
  [][pc = "scrollTop" => pc' = "finalize"]_vars

\* stages of the request's state machine
StageOf(p) ==
  CASE p = "idle" -> 0
    [] p \in {"query", "prefs"} -> 1
    [] p = "inject" -> 2
    [] p = "capture" -> 3
    [] p \in {"dims", "ensure1", "fastRaster", "cache", "stitchInit", "scroll",
              "settle", "raster", "add", "scrollTop", "finalize"} -> 4
    [] p \in {"html", "markdown", "png", "pdf", "pdfEnsure", "pdfGen", "printpdf",
              "attach", "print", "detachReturn", "detachThrow"} -> 5
    [] p \in {"deliver", "zipEnsure", "zipCreate", "zipDownload", "zipRevoke",
              "download", "revoke"} -> 6
    [] p \in {"finish", "done"} -> 7
    [] p = "error" -> 8

RasterCalls ==
  StitchCalls \cup {"get-page-dimensions", "captureVisibleTab", "cache-screenshot"}

\* C19: the stage of a request never decreases; the capture message is sent
\* only after the injection succeeded, rasterization and compositing calls
\* only after the extraction was answered and only before the first format is
\* finalized, and a download or bundle request only when every requested
\* format has an entry.
C19_LinearStages ==
  /\ [](/\ "capture" \in calls => injected = "ok"
        /\ calls \cap RasterCalls # {} =>
             ("capture" \in calls /\ ~captureResponse.error /\ StageOf(pc) >= 4)
        /\ (results # <<>> \/ files # <<>> \/ "generate-pdf" \in calls
              \/ "debugger.attach" \in calls) => StageOf(pc) \in 5..7
        /\ calls \cap {"download", "create-zip"} # {} =>
             /\ StageOf(pc) \in 6..7
             /\ \A f \in formats : EntriesOf(f) # {})
  /\ [][pc \notin {"done", "error"} =>
          /\ StageOf(pc') >= StageOf(pc)
          /\ StageOf(pc) >= 5 => calls' \cap RasterCalls = calls \cap RasterCalls]_vars

\* C19 witness: a request went through every stage, tiles and bundle included
C19_Witness ==
  /\ pc = "done"
  /\ formats = FORMAT_IDS
  /\ {"stitch-finalize", "generate-pdf", "debugger.detach", "create-zip", "download"}
       \subseteq calls

\* C13: stitch-init allocates a canvas of height
\* min(round(totalHeight * pixelScale), 32000), never more than 32000; a
\* decoded tile whose destination offset is at or beyond the canvas height
\* draws nothing and is acknowledged with ok.
C13_CompositeHeightCapped ==
  /\ [](stitchCanvas.exists => stitchCanvas.height <= 32000)
  /\ [][/\ \A msg \in StitchInitMsgs :
             OnStitchInit(msg) =>
               /\ stitchCanvas'.exists
               /\ stitchCanvas'.height =
                    Min(Round(msg.totalHeight * DprOf(msg), DprScale), 32000)
        /\ \A y \in AddCaptureOffsets : \A h \in TileHeights :
             (/\ OnStitchAddCapture(y, h, TRUE)
              /\ stitchCanvas.exists
              /\ Round(y * stitchDpr, DprScale) >= stitchCanvas.height) =>
               /\ painted' = painted
               /\ stitchCanvas' = stitchCanvas
               /\ response' = [type |-> "stitch-add-capture", kind |-> "ok"]]_vars

\* C13 witness: on a capped canvas a tile beyond the cap was acknowledged
\* and drew nothing
C13_Witness ==
  /\ stitchCanvas.exists
  /\ stitchCanvas.height = 32000
  /\ painted = <<>>
  /\ response = [type |-> "stitch-add-capture", kind |-> "ok"]

\* C14: every drawImage on the stitch canvas stays inside it: a tile with
\* destY below the canvas height draws min(tileHeight, canvasHeight - destY)
\* rows, so destY + rows <= canvasHeight.
C14_PaintInsideCanvas ==
  /\ [](\A i \in DOMAIN painted :
          /\ stitchCanvas.exists
          /\ painted[i][2] >= 1
          /\ painted[i][1] + painted[i][2] <= stitchCanvas.height)
  /\ [][\A y \in AddCaptureOffsets : \A h \in TileHeights :
          (/\ OnStitchAddCapture(y, h, TRUE)
           /\ stitchCanvas.exists
           /\ Round(y * stitchDpr, DprScale) < stitchCanvas.height) =>
            painted' =
              Append(painted,
                     <<Round(y * stitchDpr, DprScale),
                       Min(h, stitchCanvas.height - Round(y * stitchDpr, DprScale))>>)]_vars

\* C14 witness: a tile taller than what is left of the canvas was clipped at
\* the canvas's last row
C14_Witness ==
  \E i \in DOMAIN painted :
    /\ painted[i][1] > 0
    /\ painted[i][2] > 1
    /\ painted[i][2] < 600
    /\ painted[i][1] + painted[i][2] = stitchCanvas.height

\* C20: a document built from a composite of imgWidth x imgHeight pixels has
\* ceil(pdfHeightMm / 297) pages, pdfHeightMm = imgHeight / imgWidth * 210,
\* and has one page exactly when pdfHeightMm <= 297.
C20_PageCount ==
  doc.imgWidth > 0 =>
    /\ doc.pages = CeilDiv(210 * doc.imgHeight, 297 * doc.imgWidth)
    /\ doc.pages = 1 <=> 210 * doc.imgHeight <= 297 * doc.imgWidth
    /\ doc.format = "fit" <=> doc.pages = 1

\* C20 witness: a composite of 210 x 891 pixels gave three pages
C20_Witness ==
  /\ doc.imgWidth = 210
  /\ doc.imgHeight = 891
  /\ doc.pages = 3
  /\ response = [type |-> "generate-pdf", kind |-> "blobUrl"]

\* C21: in a document of several pages the bands of the source image
\* partition it: band p starts at p * (297 / 210) * imageWidth (lengths in
\* 1/70 px: p * 99 * imageWidth), the first band starts at row 0, each band
\* starts where the one before ends, every band but the last has the full
\* page height, the last one is not empty and ends at imageHeight.
C21_BandsPartition ==
  (doc.format = "a4" /\ doc.imgWidth > 0) =>
    /\ Len(doc.bands) = doc.pages
    /\ doc.pages >= 2
    /\ \A p \in DOMAIN doc.bands :
         /\ doc.bands[p][1] = (p - 1) * 99 * doc.imgWidth
         /\ doc.bands[p][2] = Min(99 * doc.imgWidth, 70 * doc.imgHeight - doc.bands[p][1])
         /\ doc.bands[p][2] > 0
         /\ p < Len(doc.bands) =>
              /\ doc.bands[p][2] = 99 * doc.imgWidth
              /\ doc.bands[p + 1][1] = doc.bands[p][1] + doc.bands[p][2]
    /\ doc.bands[Len(doc.bands)][1] + doc.bands[Len(doc.bands)][2] = 70 * doc.imgHeight

\* C21 witness: a composite of 70 x 100 pixels gave a full band of 99 rows
\* and a last band of the one remaining row
C21_Witness ==
  /\ doc.imgWidth = 70
  /\ doc.imgHeight = 100
  /\ doc.bands = <<(<<0, 6930>>), (<<6930, 70>>)>>
  /\ response = [type |-> "generate-pdf", kind |-> "blobUrl"]

\* the execution is between its own stitch-init and its stitch-finalize
Compositing(t) == procs[t].pc \in {"tile", "add", "scrollTop", "finalize"}

\* C16 (as claimed): no two executions are between their stitch-init and
\* their stitch-finalize at the same time.
C16_OneCaptureAtATime ==
  \A t, u \in Triggers : (Compositing(t) /\ Compositing(u)) => t = u

IllegalInName ==
  {"NUL", "TAB", "LF", "US", "/", "\\", "<", ">", ":", "\"", "|", "?", "*",
   " ", "NBSP"}

C23_SanitizeIdempotent ==
  [][sanitized'.input = sanitized.output => sanitized'.output = sanitized.output]_vars

\* C23 witness: a result that was truncated to 120 code units and holds a
\* '-' made from white space went through sanitizeFilename again
C23_Witness ==
  /\ sanitized.input = sanitized.output
  /\ Len(sanitized.output) = 120
  /\ sanitized.output[120] = "-"
  /\ resolved = NoResolved

\* the example: pattern {date}_{hostname}_{title}, host example.com, title
\* "My Title!", date 2026-02-17
IsTheExample ==
  /\ resolved.pattern = DefaultPattern
  /\ resolved.pageUrl = [valid |-> TRUE, hostname |-> <<"e", "x", "a", "m", "p", "l", "e", ".", "c", "o", "m">>]
  /\ resolved.pageTitle = <<"M", "y", " ", "T", "i", "t", "l", "e", "!">>
  /\ resolved.clock.date = <<"2", "0", "2", "6", "-", "0", "2", "-", "1", "7">>

\* C24 (as claimed): the example resolves to
\* 2026-02-17_example.com_My-Title, the '!' being stripped.
C24_ExampleStripsBang ==
  IsTheExample =>
    resolved.file.stem =
      <<"2", "0", "2", "6", "-", "0", "2", "-", "1", "7", "_", "e", "x", "a",
        "m", "p", "l", "e", ".", "c", "o", "m", "_", "M", "y", "-", "T", "i",
        "t", "l", "e">>

\* C24 (amended): the example resolves to 2026-02-17_example.com_My-Title!
\* with the extension appended after a dot: the space becomes a hyphen and
\* the '!', which is not among the stripped characters, stays.
C24_ExampleKeepsBang ==
  IsTheExample =>
    /\ resolved.file.stem =
         <<"2", "0", "2", "6", "-", "0", "2", "-", "1", "7", "_", "e", "x",
           "a", "m", "p", "l", "e", ".", "c", "o", "m", "_", "M", "y", "-",
           "T", "i", "t", "l", "e", "!">>
    /\ resolved.file.ext = "html"

\* C24 witness: the example has been resolved
C24_Witness ==
  /\ IsTheExample
  /\ resolved.file.subfolder = ""
  /\ resolved.file.ext = "html"
  /\ Len(resolved.file.stem) = 32

\* C25 (as claimed): a finished request with bundling enabled and at least
\* one file collected has issued exactly one download, the container's; with
\* bundling disabled it has attempted one download per file, in order; with
\* no file collected it has issued no download and no create-zip.
C25_ExactlyOneOfTwoShapes ==
  pc = "done" =>
    /\ (files # <<>> /\ bundleAsZip) =>
         /\ Len(downloads) = 1
         /\ downloads[1].ext = "zip"
         /\ "create-zip" \in calls
    /\ (files # <<>> /\ ~bundleAsZip) =>
         /\ downloads = [i \in DOMAIN files |-> files[i].filename]
         /\ "create-zip" \notin calls
    /\ files = <<>> => (downloads = <<>> /\ "create-zip" \notin calls)

\* the container could not be built: the rendering context or create-zip failed
BundleFailed ==
  \E i \in DOMAIN results :
    results[i].label.prefix = "ZIP" /\ results[i].label.reason \in {"offscreen", "create-zip"}

\* C25 (amended): with bundling enabled no file is downloaded on its own and
\* at most one download, the container's, is issued: exactly one when the
\* container was built, none when the rendering context or create-zip
\* failed; with bundling disabled one download is attempted per collected
\* file, in order, and no create-zip is sent; with no file collected there is
\* no download and no create-zip.
C25_DeliveryShapes ==
  /\ bundleAsZip =>
       /\ Len(downloads) <= 1
       /\ \A i \in DOMAIN downloads :
            /\ downloads[i].ext = "zip"
            /\ "create-zip" \in calls
            /\ files # <<>>
  /\ ~bundleAsZip =>
       /\ "create-zip" \notin calls
       /\ Len(downloads) <= Len(files)
       /\ \A i \in DOMAIN downloads : downloads[i] = files[i].filename
  /\ pc = "done" =>
       /\ (files # <<>> /\ bundleAsZip) => (Len(downloads) = 1 <=> ~BundleFailed)
       /\ (files # <<>> /\ ~bundleAsZip) => Len(downloads) = Len(files)
       /\ files = <<>> => (downloads = <<>> /\ "create-zip" \notin calls)

\* C25 witness: three files went out as one container
C25_Witness ==
  /\ pc = "done"
  /\ bundleAsZip
  /\ Len(files) = 3
  /\ Len(downloads) = 1
  /\ downloads[1].ext = "zip"

\* the file name was built from the subfolder and the pattern of the record
UsesPrefs(filename, prefs) ==
  /\ filename.subfolder = prefs.subfolder
  /\ filename.stem = PageStems[prefs.filenamePattern]

\* C26 (as claimed): whatever the options page saves while a request runs,
\* the bundling decision, the name of every collected file and the name of
\* every download of the request come from the preference record as it was
\* when the request read it.
C26_PrefsFixedAtStart ==
  prefsAtStart # NoPrefs =>
    /\ bundleAsZip = prefsAtStart.bundleAsZip
    /\ \A i \in DOMAIN files : UsesPrefs(files[i].filename, prefsAtStart)
    /\ \A i \in DOMAIN downloads : UsesPrefs(downloads[i], prefsAtStart)

\* the progress reports issued for the stage of a format
ReportsOf(f) == {i \in DOMAIN progress : progress[i].label = ProgressLabel[f]}

\* requested formats whose stage comes before the stage of f
EarlierFormats(f) == {g \in formats : StageEnd[g] < StageEnd[f]}

\* a report of the stage of f carries 40 + k * (50 / N) percent, k being the
\* number of requested formats already completed and N that of all of them
CarriesEvenStep(f) ==
  \A i \in ReportsOf(f) :
    progress[i].num * Cardinality(formats) =
      (40 * Cardinality(formats) + 50 * Cardinality(EarlierFormats(f))) * progress[i].den

\* the percentages reported by the request never decrease
NeverDecreases ==
  \A i, j \in DOMAIN progress :
    i < j => progress[i].num * progress[j].den <= progress[j].num * progress[i].den

\* C27 (as claimed): a progress report is issued before the stage of every
\* requested format, it carries 40 + k * (50 / N) percent, and the
\* percentages of a request never decrease.
C27_ReportBeforeEveryFormat ==
  /\ \A f \in formats : Rank(pc) > StageEnd[f] => ReportsOf(f) # {}
  /\ \A f \in FORMAT_IDS : CarriesEvenStep(f)
  /\ NeverDecreases

\* the branch of the stage that reports: the content of the markup, text and
\* raster-image formats must be there, the two document stages always report
HasContent(f) ==
  CASE f = "html" -> captureResponse.html
    [] f = "markdown" -> captureResponse.markdown # "none"
    [] f = "png" -> screenshotData # NoShot
    [] f \in {"pdf", "printpdf"} -> TRUE

\* C27 (amended): once the stage of a requested format is over, exactly one
\* progress report has been issued for it when the format is a document
\* format or its captured content was available, and none when the content
\* of a markup, text or raster-image format was missing (the failure is
\* recorded without a report and counts as a completed step); every such
\* report carries 40 + k * (50 / N) percent, and the percentages of a
\* request never decrease.
C27_ProgressReports ==
  /\ \A f \in formats :
       Rank(pc) > StageEnd[f] =>
         /\ Cardinality(ReportsOf(f)) = (IF HasContent(f) THEN 1 ELSE 0)
         /\ EntriesOf(f) # {}
  /\ \A f \in FORMAT_IDS \ formats : ReportsOf(f) = {}
  /\ \A f \in FORMAT_IDS : CarriesEvenStep(f)
  /\ NeverDecreases

\* C27 witness: five formats; the markup was not extracted and got no
\* report, the raster image was reported at 40 + 2 * (50 / 5) = 60 percent
C27_Witness ==
  /\ pc = "done"
  /\ formats = FORMAT_IDS
  /\ ReportsOf("html") = {}
  /\ \E i \in ReportsOf("png") : progress[i].num = 300 /\ progress[i].den = 5
  /\ \E i \in DOMAIN progress : progress[i].num = 95

\* requests to the PDF renderer and to the print pipeline of the debugger
RendererCalls ==
  {"generate-pdf", "debugger.attach", "Page.printToPDF", "debugger.detach"}

\* the extraction returned the markup and every download of the request succeeded
MarkupDelivered ==
  /\ captureResponse.html
  /\ dlFailed = {}
  /\ \A i \in DOMAIN results : results[i].label.prefix # "ZIP"

\* C28: a finished request for the markup format alone, whose extraction
\* and delivery succeeded, has a result list of exactly one entry, the HTML
\* one, successful and naming the .html file; no rasterization, compositing
\* or rendering call was made and no composite was produced.
C28_MarkupOnly ==
  (pc = "done" /\ formats = {"html"} /\ MarkupDelivered) =>
    /\ Len(results) = 1
    /\ results[1].label.prefix = LabelOf["html"]
    /\ results[1].success
    /\ results[1].label.file.ext = "html"
    /\ results[1].label.suffix = ""
    /\ calls \cap (RasterCalls \cup RendererCalls) = {}
    /\ composites = 0
    /\ Len(files) = 1

\* C28 witness: such a request finished with its file downloaded on its own
C28_Witness ==
  /\ pc = "done"
  /\ formats = {"html"}
  /\ MarkupDelivered
  /\ ~bundleAsZip
  /\ Len(downloads) = 1
  /\ downloads[1].ext = "html"

\* outcomes of the article extractor that carry no content: no article at
\* all, or an article whose content is empty
NoContentOutcomes == {"null", "nocontent"}

\* C29: when article text is requested and the extractor returns nothing or
\* an article without content, the extraction answers with the conversion
\* of the raw body, and with nothing only when that conversion fails too;
\* once the stage is over the Markdown entry is recorded as a success
\* exactly when the extraction answered with some text (and stays one until
\* delivery, where only a failed download can downgrade it), so the fallback
\* text gives a success entry and only a failed fallback a failure entry.
C29_FallbackToBody ==
  /\ [][\A htmlOk, turndownOk \in BOOLEAN : \A rd \in NoContentOutcomes :
          (needsMarkdown /\ Capture(TRUE, htmlOk, rd, turndownOk)) =>
            captureResponse'.markdown = (IF turndownOk THEN "body" ELSE "none")]_vars
  /\ []((needsMarkdown /\ Rank(pc) > StageEnd["markdown"]) =>
          /\ Cardinality(EntriesOf("markdown")) = 1
          /\ \A i \in EntriesOf("markdown") :
               /\ RecordedSuccess(results[i]) <=> captureResponse.markdown # "none"
               /\ Rank(pc) <= Rank("deliver") =>
                    (results[i].success <=> captureResponse.markdown # "none"))

\* C29 witness: a finished request whose Markdown file holds the converted
\* body and whose Markdown entry is a success
C29_Witness ==
  /\ pc = "done"
  /\ captureResponse.markdown = "body"
  /\ \E i \in EntriesOf("markdown") : results[i].success
  /\ \E i \in DOMAIN files : files[i].filename.ext = "md"

\* the answer of a stitch-finalize that encoded the canvas
FinalizedOk == response = [type |-> "stitch-finalize", kind |-> "blobUrl"]

\* the step answers with an error, paints nothing and allocates no canvas
RefusedWithoutCanvas ==
  /\ response'.kind = "error"
  /\ painted' = painted
  /\ ~stitchCanvas'.exists

\* C30: in the state after a successful stitch-finalize the cached-composite
\* slot holds the composite of that canvas and no canvas exists; while no
\* canvas exists (no stitch-init since), every stitch-add-capture and every
\* stitch-finalize is answered with an error, paints nothing and leaves the
\* canvas absent.
C30_FinalizeReleasesCanvas ==
  /\ [](FinalizedOk =>
          /\ cachedScreenshotBlob = "cur"
          /\ blobSize.height > 0
          /\ ~stitchCanvas.exists)
  /\ [][/\ \A y \in AddCaptureOffsets : \A h \in TileHeights : \A loaded \in BOOLEAN :
            (~stitchCanvas.exists /\ OnStitchAddCapture(y, h, loaded)) =>
              (RefusedWithoutCanvas /\ response'.type = "stitch-add-capture")
         /\ \A encoded \in BOOLEAN :
            (~stitchCanvas.exists /\ OnStitchFinalize(encoded)) =>
              (RefusedWithoutCanvas /\ response'.type = "stitch-finalize")]_vars

\* C30 witness: a canvas was allocated at a pixel ratio above 1 and released
\* by a finalize, and a second finalize has just been answered with an error
C30_Witness ==
  /\ response = [type |-> "stitch-finalize", kind |-> "error"]
  /\ ~stitchCanvas.exists
  /\ stitchDpr # DprScale

\* C31 (as claimed): the format list the shortcut passes to archivePage is
\* the set of formats the options page shows as checked for the stored
\* record the shortcut read, and no capture is started when that set is
\* empty.
C31_ShortcutUsesShownFormats ==
  shortcut.fired =>
    /\ shortcut.formats = loadOptions(shortcut.record)
    /\ loadOptions(shortcut.record) = {} => ~shortcut.started

\* C32 (as claimed): the composite a generate-pdf request finds in the
\* cached slot was produced during the same capture, or the slot is empty;
\* the renderer never builds a document from the composite of an earlier
\* capture.
C32_CompositeOfSameCapture ==
  /\ pdfSource \in {"n/a", "none", "cur"}
  /\ pdfPath = "image" => pdfSource = "cur"

\* C33 (as claimed): when an earlier createDocument was rejected and
\* getContexts answers that no rendering context exists, the execution
\* issues a new createDocument instead of failing on the rejected creation.
C33_RejectedCreationNotSticky ==
  [][\A t \in Triggers :
       (/\ ContextsAnswer(t)
        /\ ~Head(inbox).value
        /\ offscreenCreating = "rejected") =>
         (t \in creating' /\ procs'[t].pc = "creating")]_vars

\* the ids of the requests sent so far
SentIds == 1..msgIdCounter

\* the responses posted for a request, and the settlements of its call
PostedFor(id) == {i \in DOMAIN posted : posted[i].id = id}
SettledFor(id) == {i \in DOMAIN settled : settled[i].call = id}

\* no request, handler run or response is in flight
PortQuiet == toOffscreen = <<>> /\ handling = {} /\ toWorker = <<>>

\* C34: the requests in flight carry pairwise distinct ids; every response
\* carries the id of a request sent and an acknowledgement, a handle or an
\* error; no request is answered twice and no call is settled twice; a call
\* is settled only by the response carrying its own id, also while other
\* calls are pending; and every request sent is eventually answered and its
\* call settled, exactly once.
C34_AnsweredOnceById ==
  /\ [](/\ \A i, j \in DOMAIN toOffscreen :
             toOffscreen[i].id = toOffscreen[j].id => i = j
        /\ \A m \in handling : \A i \in DOMAIN toOffscreen : m.id # toOffscreen[i].id
        /\ \A m, n \in handling : m.id = n.id => m = n
        /\ \A i \in DOMAIN posted :
             posted[i].id \in SentIds /\ posted[i].kind \in {"ok", "blobUrl", "error"}
        /\ \A id \in SentIds :
             Cardinality(PostedFor(id)) <= 1 /\ Cardinality(SettledFor(id)) <= 1
        /\ \A i \in DOMAIN settled :
             /\ settled[i].id = settled[i].call
             /\ \E j \in PostedFor(settled[i].call) : posted[j].kind = settled[i].kind
        /\ PortQuiet =>
             (portHandlers = {} /\ \A id \in SentIds :
                Cardinality(PostedFor(id)) = 1 /\ Cardinality(SettledFor(id)) = 1))
  /\ \A id \in 1..MaxMsgs :
       (msgIdCounter >= id) ~> (Cardinality(SettledFor(id)) = 1 /\ id \notin portHandlers)

\* C34 witness: three requests were sent, the second was answered (with an
\* error) before the first while both calls were pending, and all is quiet
C34_Witness ==
  /\ PortQuiet
  /\ Len(settled) = 3
  /\ settled[1].call = 2
  /\ settled[1].kind = "error"
  /\ settled[2].call = 1
  /\ Len(posted) = 3

\* the create-zip request was answered with the blob URL of the container
ZipCreated ==
  /\ "create-zip" \in calls
  /\ \A i \in DOMAIN results :
       ~(results[i].label.prefix = "ZIP" /\ results[i].label.reason = "create-zip")

\* the blob URLs the offscreen document handed to this request: of the
\* stitched image, of the paginated document and of the container
HandedUrls ==
  (IF screenshotData = "blob" THEN {"blob:png"} ELSE {})
    \cup (IF pdfResponse = "blobUrl" THEN {"blob:pdf"} ELSE {})
    \cup (IF ZipCreated THEN {"blob:zip"} ELSE {})

\* C35 (as claimed): when archivePage has returned, a revoke-blob-url
\* request was sent for every blob URL the offscreen document handed to it.
C35_EveryBlobUrlRevoked ==
  pc \in {"done", "error"} => HandedUrls \subseteq revoked

\* C36 (as claimed): every archive request that has started eventually
\* returns a result list or an error, for every geometry with non-negative
\* dimensions; the tile loop performs finitely many scroll-capture cycles.
C36_EveryRequestTerminates ==
  (pc # "idle") ~> (pc \in {"done", "error"})

\* C37 (as claimed): once captureFullPageScreenshot has completed, normally
\* or by a failure, the target is back at the top: a capture whose loop
\* scrolled has issued the scroll to the top before it completed.
C37_BackAtTopAfterCapture ==
  StageOf(pc) \in 5..7 => scrollY = 0

\* C38 (as claimed): for the image in the cached slot, when generatePdf takes
\* the multi-page path, the slice canvas of every page index below
\* totalPages has a height of at least one pixel.
C38_EverySliceHasRows ==
  (cachedScreenshotBlob # NoBlob /\ TotalPages(blobSize.width, blobSize.height) > 1) =>
    \A page \in 0..(TotalPages(blobSize.width, blobSize.height) - 1) :
      SliceRows(blobSize.width, blobSize.height, page) >= 1

\* positions of generatePrintPdf after a successful attach
PrintPositions == {"print", "detachReturn", "detachThrow"}

\* C39: once the print stage of a request is over, detach was issued if and
\* only if the attach had succeeded (the print command was reached), and
\* the stage issues it at most once; the step that leaves generatePrintPdf
\* is the one that issues detach, after a print that succeeded and after one
\* that failed; a failed print adds one failed Print PDF entry and no file,
\* and the print stage changes no entry and no file of another format.
C39_DebuggerReleased ==
  /\ []((needsPrintPdf /\ StageOf(pc) \in 6..7) =>
          /\ "debugger.attach" \in calls
          /\ "debugger.detach" \in calls <=> "Page.printToPDF" \in calls
          /\ Cardinality(EntriesOf("printpdf")) = 1)
  /\ [](pc \in {"attach", "print"} => "debugger.detach" \notin calls)
  /\ [][(pc \in PrintPositions /\ pc' \notin PrintPositions) =>
          /\ pc \in {"detachReturn", "detachThrow"}
          /\ "debugger.detach" \notin calls
          /\ "debugger.detach" \in calls']_vars
  /\ [][(pc = "detachThrow" /\ pc' # pc) =>
          /\ files' = files
          /\ Len(results') = Len(results) + 1
          /\ results'[Len(results')].label.prefix = LabelOf["printpdf"]
          /\ ~results'[Len(results')].success]_vars
  /\ [][(pc \in PrintPositions \cup {"attach"}) =>
          /\ \A i \in DOMAIN results : results'[i] = results[i]
          /\ \A i \in DOMAIN files : files'[i] = files[i]
          /\ Len(results') <= Len(results) + 1
          /\ \A i \in DOMAIN results' \ DOMAIN results :
               results'[i].label.prefix = LabelOf["printpdf"]]_vars

\* C39 witness: the print command failed after a successful attach, detach
\* was issued, the Print PDF entry is a failure and the HTML entry a success
C39_Witness ==
  /\ pc = "done"
  /\ {"debugger.attach", "Page.printToPDF", "debugger.detach"} \subseteq calls
  /\ \E i \in EntriesOf("printpdf") :
       ~results[i].success /\ results[i].label.reason = "print"
  /\ \E i \in EntriesOf("html") : results[i].success

\* C40: in a document the content script was injected into, whatever the
\* number of injections, exactly one message listener is registered; a
\* capture, get-page-dimensions or scroll-to message sent to it is handled
\* once, and a scroll-to performs exactly one scroll, to the requested
\* offset clamped to the scrollable range; a further injection changes
\* neither the flag nor the listeners.
C40_InjectionIdempotent ==
  /\ [](/\ injections >= 1 => (listeners = 1 /\ webpageArchiverInjected)
        /\ injections = 0 => (listeners = 0 /\ ~webpageArchiverInjected)
        /\ (lastMsg.type # "none" /\ injections >= 1 /\ lastMsg.handled > 0) =>
             /\ lastMsg.handled = 1
             /\ lastMsg.scrolls = (IF lastMsg.type = "scroll-to" THEN 1 ELSE 0))
  /\ [][(injections >= 1 /\ injections' = injections + 1) =>
          (listeners' = listeners /\ webpageArchiverInjected' = webpageArchiverInjected)]_vars
  /\ [][(injections >= 1 /\ lastMsg' # lastMsg /\ injections' = injections) =>
          /\ lastMsg'.handled = 1
          /\ lastMsg'.type = "scroll-to" =>
               (lastMsg'.scrolls = 1 /\ scrollY' = Min(lastMsg'.y, 7))]_vars

\* C40 witness: after three injections one listener handled a scroll-to once
C40_Witness ==
  /\ injections = 3
  /\ listeners = 1
  /\ lastMsg = [type |-> "scroll-to", y |-> 2, handled |-> 1, scrolls |-> 1]
  /\ scrollY = 2

====
